---- MODULE Spec2Model ----
(***************************************************************************)
(* Model of the ansible-portainer reconciliation modules: the generic CRUD *)
(* resource (module_utils/portainer_crud.py), the change detection         *)
(* (module_utils/portainer_module.py) and the per-kind orchestrators       *)
(* (modules/portainer_*.py), run against a backend that stores what it is  *)
(* sent.                                                                   *)
(*                                                                         *)
(* Values.  Every field value is a tuple of strings, so that values of     *)
(* different Python types are comparable and never equal: None is          *)
(* <<"None">>, a scalar v is <<v>>, a list [a, b] is <<"[", a, b>>.  Ids    *)
(* are decimal strings.  A dict is a function from field names to values.  *)
(* An endpoint path is the tuple of its segments.                          *)
(***************************************************************************)
EXTENDS Integers, Sequences, FiniteSets, TLC

VARIABLES
    module,     \* the module (resource kind) whose main() the behaviour runs
    remote,     \* the backend: per kind, the records in remote order
    nextId,     \* the id the backend gives to the next created record
    pc,         \* position of the invocation
    params,     \* module.params and module.check_mode of the invocation
    pending,    \* group / tag names still to be resolved to ids
    ids,        \* the resolved group id and tag ids
    item,       \* self.<kind>: the record the manager holds
    old_item,   \* self.old_<kind>: the record as first fetched
    plan,       \* the transport calls the state function still has to issue
    results,    \* the result (or failure) payload
    log,        \* the transport calls issued by the invocation, in order
    lookups,    \* the name lookups of the invocation, with what the backend held
    elapsed,    \* seconds the health wait has slept
    run,        \* number of the invocation: 0 before the first
    start,      \* the backend as it was when the invocation started
    prev,       \* outcome of the preceding invocation when this one repeats it
    pure        \* inputs and result of the pure function under check

vars == <<module, remote, nextId, pc, params, pending, ids, item, old_item, plan,
          results, log, lookups, elapsed, run, start, prev, pure>>

runvars == <<module, remote, nextId, pc, params, pending, ids, item, old_item, plan,
             results, log, lookups, elapsed, run, start, prev>>

None == <<"None">>
S(v) == <<v>>
L(s) == <<"[">> \o s

EmptyDict == [k \in {} |-> None]

\* dict.get(k): the value, or None when the key is absent
Get(d, k) == IF k \in DOMAIN d THEN d[k] ELSE None

\* {k: v for k, v in d.items() if k in K}
Restrict(d, K) == [k \in (K \cap DOMAIN d) |-> d[k]]

\* {**a, **b}
Merge(a, b) == [k \in (DOMAIN a \cup DOMAIN b) |-> IF k \in DOMAIN b THEN b[k] ELSE a[k]]

\* {k: v for k, v in d.items() if v is not None}
DropNone(d) == Restrict(d, {k \in DOMAIN d : d[k] # None})

\* list(self.tag_ids): the resolved ids, a set, in ascending order
RECURSIVE SortedIds(_)
SortedIds(set) ==
    IF set = {} THEN <<>>
    ELSE LET m == CHOOSE x \in set : \A y \in set : x <= y
         IN  <<ToString(m)>> \o SortedIds(set \ {m})

Range(seq) == {seq[i] : i \in 1..Len(seq)}

\* the ids as a list of the group manager: in the order of the tag names
IdList(seq) == [i \in 1..Len(seq) |-> ToString(seq[i])]

(***************************************************************************)
(* IdempotencyManager.needs_update                                         *)
(***************************************************************************)
\* a variant of needs_update that keeps the None values of new_data
needs_update_keep_none(existing_data, new_data, skip_fields) ==
    Restrict(new_data, {k \in DOMAIN new_data :
                            k \notin skip_fields /\ new_data[k] # Get(existing_data, k)})

\* a variant of needs_update that ignores skip_fields
needs_update_ignore_skip(existing_data, new_data, skip_fields) ==
    DropNone(Restrict(new_data, {k \in DOMAIN new_data :
                            new_data[k] # Get(existing_data, k)}))

needs_update(existing_data, new_data, skip_fields) ==
    LET changes == Restrict(new_data, {k \in DOMAIN new_data :
                            k \notin skip_fields /\ new_data[k] # Get(existing_data, k)})
    IN  DropNone(changes)

(***************************************************************************)
(* The generic CRUD resource: BaseCRUD, BaseDockerCRUD and the per-kind    *)
(* subclasses of module_utils/portainer_crud.py.                           *)
(***************************************************************************)
Kinds == {"tag", "group", "environment", "stack", "network", "config", "secret"}
DockerKinds == {"network", "config", "secret"}

\* Python truthiness of a parameter value: None, False, "" and [] are falsy
Truthy(v) == v \notin {None, S("false"), S(""), L(<<>>)}

name_field(kind) == "Name"

id_field(kind) == IF kind \in {"tag", "config", "secret"} THEN "ID" ELSE "Id"

docker_endpoint(kind) ==
    CASE kind = "network" -> "networks"
      [] kind = "config"  -> "configs"
      [] kind = "secret"  -> "secrets"

\* the endpoint property: BaseCRUD.endpoint, BaseDockerCRUD.endpoint
endpoint(kind, p) ==
    CASE kind = "tag"         -> <<"tags">>
      [] kind = "group"       -> <<"endpoint_groups">>
      [] kind = "environment" -> <<"endpoints">>
      [] kind = "stack"       -> <<"stacks">>
      [] kind \in DockerKinds ->
            <<"endpoints", p.endpoint_id[1], "docker", docker_endpoint(kind)>>

_get_create_endpoint(kind, p) ==
    CASE kind \in DockerKinds -> endpoint(kind, p) \o <<"create">>
      [] kind = "stack" ->
            endpoint(kind, p) \o <<"create", p.stack_type[1], p.stack_source[1]>>
      [] OTHER -> endpoint(kind, p)

\* a variant of _get_update_endpoint that never appends a suffix
_get_update_endpoint_always_plain(kind, p, id) == endpoint(kind, p) \o <<id>>

_get_update_endpoint(kind, p, id) ==
    CASE kind \in DockerKinds -> endpoint(kind, p) \o <<id, "update">>
      [] kind = "stack" /\ p.stack_type = S("swarm") /\ p.stack_source = S("repository") ->
            endpoint(kind, p) \o <<id, "git">>
      [] OTHER -> endpoint(kind, p) \o <<id>>

_update_method(kind, p) ==
    IF kind = "stack" /\ p.stack_type = S("swarm") /\ p.stack_source = S("repository")
    THEN "POST" ELSE "PUT"

_get_delete_endpoint(kind, p, id) == endpoint(kind, p) \o <<id>>

\* get_nested(item, "Spec.Name", None)
SpecName(it) ==
    IF "Spec" \in DOMAIN it /\ "Name" \in DOMAIN it["Spec"] THEN it["Spec"]["Name"] ELSE None

\* _process_single_item: the per-kind normalisation of a record that was read
_process_single_item(kind, it) ==
    CASE kind \in DockerKinds ->
            IF Truthy(SpecName(it)) /\ "Name" \notin DOMAIN it
            THEN Merge(it, [Name |-> SpecName(it)]) ELSE it
      [] OTHER -> it

\* _process_response on a list
ProcessList(kind, data) == [i \in 1..Len(data) |-> _process_single_item(kind, data[i])]

\* the records of a list that pass every filter of a dict of local filters
Matching(items_, filters) ==
    SelectSeq(items_, LAMBDA it : \A k \in DOMAIN filters : Get(it, k) = filters[k])

\* a variant of get_item_by_name that returns the first of several matches
get_item_by_name_first_match(kind, all_items, name, filters) ==
    LET items_ == Matching(Matching(all_items, (name_field(kind) :> name)), filters)
    IN  CASE ~Truthy(name) ->
               [exc |-> "ValueError", item |-> EmptyDict, item_ids |-> <<>>]
          [] Len(items_) = 0 ->
               [exc |-> "ItemNotExists", item |-> EmptyDict, item_ids |-> <<>>]
          [] OTHER ->
               [exc |-> "none", item |-> items_[1], item_ids |-> <<>>]

\* a variant of get_item_by_name that counts every record of the name
get_item_by_name_unfiltered(kind, all_items, name, filters) ==
    LET items_ == Matching(all_items, (name_field(kind) :> name))
    IN  CASE ~Truthy(name) ->
               [exc |-> "ValueError", item |-> EmptyDict, item_ids |-> <<>>]
          [] Len(items_) = 0 ->
               [exc |-> "ItemNotExists", item |-> EmptyDict, item_ids |-> <<>>]
          [] Len(items_) = 1 ->
               [exc |-> "none", item |-> items_[1], item_ids |-> <<>>]
          [] OTHER ->
               [exc |-> "MultipleItemsReturned", item |-> EmptyDict,
                item_ids |-> [i \in 1..Len(items_) |-> items_[i][id_field(kind)]]]

\* BaseCRUD.get_item_by_name, given the normalised list it fetched
get_item_by_name(kind, all_items, name, filters) ==
    LET items_ == Matching(Matching(all_items, (name_field(kind) :> name)), filters)
    IN  CASE ~Truthy(name) ->
               [exc |-> "ValueError", item |-> EmptyDict, item_ids |-> <<>>]
          [] Len(items_) = 0 ->
               [exc |-> "ItemNotExists", item |-> EmptyDict, item_ids |-> <<>>]
          [] Len(items_) = 1 ->
               [exc |-> "none", item |-> items_[1], item_ids |-> <<>>]
          [] OTHER ->
               [exc |-> "MultipleItemsReturned", item |-> EmptyDict,
                item_ids |-> [i \in 1..Len(items_) |-> items_[i][id_field(kind)]]]

\* BaseCRUD.validate_single_item: the one matching record, none, or the
\* fatal ambiguous-name failure carrying duplicate_ids
validate_single_item(kind, all_items, name, filters) ==
    LET r == get_item_by_name(kind, all_items, name, filters)
    IN  CASE r.exc = "MultipleItemsReturned" ->
               [fail |-> "ambiguous", item |-> EmptyDict, duplicate_ids |-> r.item_ids]
          [] r.exc = "ValueError" ->
               [fail |-> "exception", item |-> EmptyDict, duplicate_ids |-> <<>>]
          [] OTHER ->
               [fail |-> "none", item |-> r.item, duplicate_ids |-> <<>>]

(***************************************************************************)
(* The backend.  It keeps, per kind, the records in creation order, gives  *)
(* a created record the next id and stores the payload it is sent.         *)
(***************************************************************************)
IdStr(n) == ToString(n)

\* index of the record of a kind with a given id; 0 when there is none
IndexOf(kind, id) ==
    LET hits == {i \in 1..Len(remote[kind]) : remote[kind][i][id_field(kind)] = S(id)}
    IN  IF hits = {} THEN 0 ELSE CHOOSE i \in hits : TRUE

\* the record a POST to the create endpoint of a kind stores and returns
CreatedRecord(kind, data) ==
    Merge(data, (id_field(kind) :> S(IdStr(nextId))))

RemoveAt(s, i) == [j \in 1..(Len(s) - 1) |-> IF j < i THEN s[j] ELSE s[j + 1]]

\* a transport call as the log keeps it, with the operation that issued it
Call(op, method, path, data, ok) ==
    [op |-> op, method |-> method, path |-> path, data |-> data, ok |-> ok]

Mutating(c) == c.method \in {"POST", "PUT", "DELETE"}

(***************************************************************************)
(* The orchestrators.  A state function is modelled by what it decides     *)
(* from the parameters and the record the lookup returned: the transport   *)
(* calls it will issue, in order (its plan), and the changed flag and      *)
(* message it reports when they have all succeeded.                        *)
(***************************************************************************)
D(plan_, changed, msg, summary) ==
    [fail |-> "none", plan |-> plan_, changed |-> changed, msg |-> msg, summary |-> summary]

F(class, msg) ==
    [fail |-> class, plan |-> <<>>, changed |-> FALSE, msg |-> msg, summary |-> {}]

\* the calls a state function issues: none in check mode
Unless(check_mode, calls) == IF check_mode THEN <<>> ELSE calls

\* base64.b64encode(raw_content.encode("utf-8")).decode("utf-8")
b64encode(v) == <<"b64">> \o v

\* open(file).read() of the files the parameters may name
FileContent(file) == S("x")

\* _get_raw_content of the config and secret managers
_get_raw_content(p) ==
    IF Truthy(p.content) THEN p.content
    ELSE IF Truthy(p.file) THEN FileContent(p.file) ELSE None

\* tag_ids of the group manager: the given ids, or the resolved tag names
GroupTagIds(p, rid) ==
    IF Truthy(p.tags) /\ ~Truthy(p.tag_ids) THEN L(IdList(rid.tag_ids)) ELSE p.tag_ids

\* _get_tag_data / _get_group_data / _get_config_data / _get_secret_data /
\* _get_network_data: the payload of the desired state
_get_data(kind, p, old, rid) ==
    CASE kind = "tag" -> [Name |-> p.name]
      [] kind = "group" ->
            DropNone(Merge(old, [Name |-> p.name, Description |-> p.description,
                                 TagIDs |-> GroupTagIds(p, rid)]))
      [] kind \in {"config", "secret"} ->
            IF ~Truthy(p.content) /\ ~Truthy(p.file)
            THEN [Name |-> p.name]
            ELSE [Name |-> p.name,
                  Data |-> IF p.b64_encoded THEN _get_raw_content(p)
                           ELSE b64encode(_get_raw_content(p))]
      [] kind = "network" ->
            DropNone([Name |-> p.name, Driver |-> p.driver, Internal |-> p.internal,
                      Attachable |-> p.attachable, Scope |-> p.scope, Ingress |-> p.ingress])

\* ensure_absent of every manager but the stack's
ensure_absent(kind, p, it) ==
    IF it # EmptyDict
    THEN D(Unless(p.check_mode, <<"delete">>), TRUE, "deleted", {})
    ELSE D(<<>>, FALSE, "does not exist", {})

\* PortainerTagManager.ensure_present
tag_ensure_present(p, it) ==
    IF it # EmptyDict
    THEN D(<<>>, FALSE, "Tag already exists", {})
    ELSE D(Unless(p.check_mode, <<"create">>), TRUE, "Tag created", {})

\* PortainerGroupManager.needs_update
group_needs_update(p, old, rid) ==
    IF old = EmptyDict THEN EmptyDict
    ELSE needs_update(old, _get_data("group", p, old, rid), {})

\* a variant of ensure_present that reports an update only when it applies it
group_ensure_present_dry_silent(p, it, rid) ==
    IF it # EmptyDict
    THEN LET changes == group_needs_update(p, it, rid)
         IN  IF changes # EmptyDict /\ ~p.check_mode
             THEN D(<<"update">>, TRUE, "Group updated", DOMAIN changes)
             ELSE D(<<>>, FALSE, "Group already exists with correct configuration", {})
    ELSE D(Unless(p.check_mode, <<"create">>), TRUE, "Group created", {})

\* PortainerGroupManager.ensure_present
group_ensure_present(p, it, rid) ==
    IF it # EmptyDict
    THEN LET changes == group_needs_update(p, it, rid)
         IN  IF changes # EmptyDict
             THEN D(Unless(p.check_mode, <<"update">>), TRUE, "Group updated", DOMAIN changes)
             ELSE D(<<>>, FALSE, "Group already exists with correct configuration", {})
    ELSE D(Unless(p.check_mode, <<"create">>), TRUE, "Group created", {})

\* a variant of ensure_present that recreates whether or not force is set
config_ensure_present_forced(p, it) ==
    IF it # EmptyDict
    THEN LET changes == needs_update(it, _get_data("config", p, it, EmptyDict), {})
         IN  IF changes = EmptyDict THEN D(<<>>, FALSE, "Config already exists.", {})
             ELSE D(Unless(p.check_mode, <<"delete", "create">>), TRUE, "Config updated.", {})
    ELSE D(Unless(p.check_mode, <<"create">>), TRUE, "Config created.", {})

\* PortainerConfigManager.ensure_present
config_ensure_present(p, it) ==
    IF it # EmptyDict
    THEN LET changes == needs_update(it, _get_data("config", p, it, EmptyDict), {})
         IN  IF changes = EmptyDict THEN D(<<>>, FALSE, "Config already exists.", {})
             ELSE IF ~p.force
             THEN D(<<>>, FALSE, "Config already exists. Update skipped.", {})
             ELSE D(Unless(p.check_mode, <<"delete", "create">>), TRUE, "Config updated.", {})
    ELSE D(Unless(p.check_mode, <<"create">>), TRUE, "Config created.", {})

\* PortainerSecretManager.ensure_present
secret_ensure_present(p, it) ==
    IF it # EmptyDict
    THEN IF ~p.force
         THEN D(<<>>, FALSE, "The content of the secret was not updated.", {})
         ELSE D(Unless(p.check_mode, <<"delete", "create">>), TRUE, "Secret updated.", {})
    ELSE D(Unless(p.check_mode, <<"create">>), TRUE, "Secret created.", {})

\* PortainerNetworkManager.ensure_present
network_ensure_present(p, it) ==
    IF it # EmptyDict
    THEN LET changes == needs_update(it, _get_data("network", p, it, EmptyDict), {})
         IN  IF changes = EmptyDict THEN D(<<>>, FALSE, "Network already exists.", {})
             ELSE IF ~p.force
             THEN D(<<>>, FALSE, "The content of the network was not updated.", {})
             ELSE D(Unless(p.check_mode, <<"delete", "create">>), TRUE, "Network updated.", {})
    ELSE D(Unless(p.check_mode, <<"create">>), TRUE, "Network created.", {})

(***************************************************************************)
(* The environment manager (modules/portainer_environment.py).             *)
(***************************************************************************)
create_only_keys == {"EndpointCreationType", "EdgeTunnelServerAddress"}

_get_environment_data(p, old, rid, exclude_keys) ==
    LET data == [Name |-> p.name,
                 EndpointCreationType |-> p.creation_type,
                 URL |-> p.url,
                 TLS |-> p.tls,
                 EdgeCheckinInterval |-> p.edge_check_in_interval,
                 EdgeTunnelServerAddress |-> p.edge_tunnel_server_address,
                 GroupId |-> IF rid.group_id = 0 THEN None ELSE S(ToString(rid.group_id)),
                 TagIds |-> L(SortedIds(Range(rid.tag_ids)))]
        new_data == Restrict(DropNone(data), DOMAIN data \ exclude_keys)
        merged == Merge(old, new_data)
    IN  Restrict(DropNone(merged), DOMAIN merged \ exclude_keys)

\* PortainerEnvironmentManager.needs_update
environment_needs_update(p, env, rid) ==
    IF env = EmptyDict THEN EmptyDict
    ELSE LET exclude_keys == create_only_keys \cup
                 (IF Truthy(Get(env, "Heartbeat")) THEN {} ELSE {"URL", "TLS"})
         IN  needs_update(env, _get_environment_data(p, env, rid, exclude_keys), {})

\* PortainerEnvironmentManager.ensure_present
environment_ensure_present(p, it, rid) ==
    IF it # EmptyDict
    THEN LET changes == environment_needs_update(p, it, rid)
         IN  IF changes = EmptyDict
             THEN D(<<>>, FALSE, "Environment already exists with correct configuration", {})
             ELSE D(Unless(p.check_mode, <<"update">>), TRUE, "Environment updated",
                    DOMAIN changes)
    ELSE D(Unless(p.check_mode, <<"create">>), TRUE, "Environment created", {})

\* PortainerEnvironmentManager.ensure_healthy
environment_ensure_healthy(p, it) ==
    IF it # EmptyDict
    THEN D(Unless(p.check_mode, <<"poll">>), FALSE, "is healthy", {})
    ELSE F("fail_json", "Environment does not exist")

(***************************************************************************)
(* The stack manager (modules/portainer_stack.py).                         *)
(***************************************************************************)
RUNNING == S("1")
STOPPED == S("2")

\* Stack.fields_mapping
fields_mapping ==
    [Id |-> "id", Name |-> "name", Env |-> "env", Prune |-> "prune",
     PullImage |-> "pull_images", AdditionalFiles |-> "additional_files",
     AutoUpdate |-> "autoupdate", ComposeFile |-> "compose_file",
     RepositoryAuthentication |-> "rep_authentication",
     RepositoryPassword |-> "rep_password",
     RepositoryReferenceName |-> "rep_refs_name", RepositoryURL |-> "rep_url",
     RepositoryUsername |-> "rep_username", SwarmId |-> "swarm_id",
     SwarmID |-> "swarm_id", EndpointId |-> "endpoint_id",
     endpointId |-> "endpoint_id", TlsskipVerify |-> "tls_skip_verify",
     Status |-> "status"]

StackAttrs == {fields_mapping[k] : k \in DOMAIN fields_mapping}

\* Stack(): every attribute None
Stack == [a \in StackAttrs |-> None]

\* Stack.update_from_dict
update_from_dict(stack, data) ==
    [a \in StackAttrs |->
        LET ks == {k \in DOMAIN data \cap DOMAIN fields_mapping : fields_mapping[k] = a}
        IN  IF ks = {} THEN stack[a] ELSE data[CHOOSE k \in ks : TRUE]]

\* Stack.to_dict: the set attributes under their field names, the password masked
to_dict(stack) ==
    [k \in {f \in DOMAIN fields_mapping : stack[fields_mapping[f]] # None} |->
        IF k = "RepositoryPassword" THEN S("***") ELSE stack[fields_mapping[k]]]

COMMON_REPO_KEYS ==
    {"AutoUpdate", "RepositoryAuthentication", "RepositoryPassword",
     "RepositoryReferenceName", "RepositoryUsername", "TlsskipVerify"}

\* StackConfig.for_stack: is there a configuration for (type, source)
config_supported(p) ==
    p.stack_source \in {S("file"), S("repository")}
        \/ (p.stack_type = None /\ p.stack_source = None)

create_keys(p) ==
    CASE p.stack_source = S("file") ->
            {"Name", "Env", "file"} \cup
                (IF p.stack_type = S("swarm") THEN {"SwarmID"} ELSE {})
      [] p.stack_source = S("repository") ->
            {"Name", "AdditionalFiles", "ComposeFile", "RepositoryURL", "Env", "Prune"}
                \cup COMMON_REPO_KEYS
                \cup (IF p.stack_type = S("swarm") THEN {"SwarmId"} ELSE {})
      [] OTHER -> {}

update_keys(p) ==
    CASE p.stack_source = S("file") -> {"Env", "Prune", "PullImage", "StackFileContent"}
      [] p.stack_source = S("repository") ->
            {"Env", "Prune", "RepositoryAuthorizationType"} \cup COMMON_REPO_KEYS
      [] OTHER -> {}

redeploy_keys(p) ==
    IF p.stack_source = S("repository") THEN update_keys(p) \cup {"PullImage"} ELSE {}

\* a variant of the skipped fields that compares the repository password
skip_fields_from_changes_with_password(p) ==
    {"ResourceControl", "UpdateDate", "UpdatedBy"}
        \cup (IF "file" \in create_keys(p) THEN {"file"} ELSE {})

skip_fields_from_changes(p) ==
    {"ResourceControl", "UpdateDate", "UpdatedBy"}
        \cup (IF "file" \in create_keys(p) THEN {"file"} ELSE {})
        \cup (IF p.stack_source = S("repository") THEN {"RepositoryPassword"} ELSE {})

\* StackStateManager.update_state: the parameters the stack found fills in
update_state(p, stack) ==
    IF Truthy(stack.id)
    THEN [p EXCEPT !.endpoint_id = IF @ = None THEN stack.endpoint_id ELSE @,
                   !.swarm_id = IF @ = None THEN stack.swarm_id ELSE @,
                   !.name = IF @ = None THEN stack.name ELSE @,
                   !.stack_id = IF @ = None THEN stack.id ELSE @]
    ELSE p

\* StackValidator._maybe_stack_exists
_maybe_stack_exists(p) ==
    LET has_id == p.stack_id # None
        has_name == p.name # None
        has_endpoint == p.endpoint_id # None
        has_swarm == p.swarm_id # None
    IN  CASE p.stack_type = S("swarm") -> has_id \/ (has_name /\ (has_endpoint \/ has_swarm))
          [] p.stack_type = S("standalone") -> has_id \/ (has_name /\ has_endpoint)
          [] OTHER -> FALSE

\* StackValidator.validate_args: "ok", or the message of the failure
validate_args(p) ==
    CASE p.state = "present" /\ ~_maybe_stack_exists(p)
            /\ p.stack_type = S("standalone") /\ p.endpoint_id = None ->
            "Provide 'endpoint_id' when creating new standalone stacks."
      [] p.state = "present" /\ ~_maybe_stack_exists(p)
            /\ p.stack_type = S("swarm") /\ (p.endpoint_id = None \/ p.swarm_id = None) ->
            "Provide endpoint_id and swarm_id when creating new swarm stacks."
      [] p.state = "present" /\ p.stack_source = S("file") /\ p.file = None ->
            "Provide 'file' for file-based stacks."
      [] p.state = "present" /\ p.stack_source = S("repository") /\ ~_maybe_stack_exists(p)
            /\ None \in {p.repository_url, p.compose_file, p.refs_name,
                         p.repository_authentication} ->
            "Provide the repository details for repository-based stacks."
      [] p.state = "present" /\ p.stack_source = S("repository")
            /\ Truthy(p.repository_authentication)
            /\ (~Truthy(p.repository_username) \/ ~Truthy(p.repository_password)) ->
            "Provide 'repository_username' and 'repository_password'."
      [] p.stack_type = None /\ p.stack_source = None
            /\ p.stack_id = None
            /\ (p.name = None \/ p.endpoint_id = None)
            /\ (p.name = None \/ p.swarm_id = None) ->
            "Provide one of the required field combinations."
      [] OTHER -> "ok"

\* StackDataBuilder._get_stack_file and _get_stack_file_content
_get_stack_file(p) == IF Truthy(p.file) THEN <<"file">> \o FileContent(p.file) ELSE None

_get_stack_file_content(p) == IF Truthy(p.file) THEN FileContent(p.file) ELSE None

\* StackDataBuilder._get_lazy_data, the lazy values computed
_get_lazy_data(p) ==
    [Name |-> p.name, Env |-> p.env, Prune |-> p.prune, PullImage |-> p.pull_images,
     AdditionalFiles |-> p.additional_files, AutoUpdate |-> p.autoupdate,
     ComposeFile |-> p.compose_file,
     RepositoryAuthentication |-> p.repository_authentication,
     RepositoryPassword |-> p.repository_password,
     RepositoryReferenceName |-> p.refs_name, RepositoryURL |-> p.repository_url,
     RepositoryUsername |-> p.repository_username,
     SwarmId |-> p.swarm_id, SwarmID |-> p.swarm_id,
     TlsskipVerify |-> p.tls_skip_verify,
     file |-> _get_stack_file(p), StackFileContent |-> _get_stack_file_content(p)]

\* StackDataBuilder._get_merged_data: p holds the state manager's current values
_get_merged_data(p, old_stack, only_keys) ==
    LET _filter_keys(d) == IF only_keys # {} THEN Restrict(d, only_keys) ELSE d
    IN  Merge(_filter_keys(to_dict(old_stack)), DropNone(_filter_keys(_get_lazy_data(p))))

get_create_data(p, old_stack) == _get_merged_data(p, old_stack, create_keys(p))

get_update_data(p, old_stack) == _get_merged_data(p, old_stack, update_keys(p))

get_redeploy_data(p, old_stack) == _get_merged_data(p, old_stack, redeploy_keys(p))

\* a variant of StackManager.needs_update that does not look at update_password
stack_needs_update_unforced(p, old_stack) ==
    LET changes == needs_update(to_dict(old_stack), get_update_data(p, old_stack),
                                skip_fields_from_changes(p))
    IN  [changed |-> changes # EmptyDict, changes |-> changes]

\* StackManager.needs_update
stack_needs_update(p, old_stack) ==
    LET changes == needs_update(to_dict(old_stack), get_update_data(p, old_stack),
                                skip_fields_from_changes(p))
    IN  [changed |-> IF p.stack_source = S("repository") /\ p.update_password
                     THEN TRUE ELSE changes # EmptyDict,
         changes |-> changes]

\* StackManager.ensure_present
stack_ensure_present(p, stack, old_stack) ==
    IF Truthy(stack.id)
    THEN IF ~stack_needs_update(p, old_stack).changed
         THEN D(<<>>, FALSE, "Stack already exists with correct configuration.", {})
         ELSE D(Unless(p.check_mode, <<"update">>), TRUE, "Stack updated.", {})
    ELSE D(Unless(p.check_mode, <<"create">>), TRUE, "Stack created.", {})

\* StackManager.ensure_absent
stack_ensure_absent(p, stack) ==
    IF Truthy(stack.id)
    THEN D(Unless(p.check_mode, <<"delete">>), TRUE, "deleted", {})
    ELSE D(<<>>, FALSE, "does not exist", {})

\* a variant of ensure_redeployed that creates the stack it does not find
stack_ensure_redeployed_or_created(p, stack) ==
    IF Truthy(stack.id)
    THEN D(Unless(p.check_mode,
                  IF p.stack_source = S("repository") THEN <<"redeploy">> ELSE <<"update">>),
           TRUE, "Stack redeployed.", {})
    ELSE D(Unless(p.check_mode, <<"create">>), TRUE, "Stack created.", {})

\* StackManager.ensure_redeployed
stack_ensure_redeployed(p, stack) ==
    IF Truthy(stack.id)
    THEN D(Unless(p.check_mode,
                  IF p.stack_source = S("repository") THEN <<"redeploy">> ELSE <<"update">>),
           TRUE, "Stack redeployed.", {})
    ELSE F("fail_json", "Cannot redeploy an inexistent stack.")

\* a variant of ensure_started that does not look at the status
stack_ensure_started_always(p, stack) ==
    IF ~Truthy(stack.id) THEN F("fail_json", "Cannot start a non-existent stack.")
    ELSE D(Unless(p.check_mode, <<"start">>), TRUE, "Stack started", {})

\* StackManager.ensure_started
stack_ensure_started(p, stack) ==
    CASE ~Truthy(stack.id) -> F("fail_json", "Cannot start a non-existent stack.")
      [] stack.status = RUNNING -> D(<<>>, FALSE, "Stack is already running", {})
      [] OTHER -> D(Unless(p.check_mode, <<"start">>), TRUE, "Stack started", {})

\* StackManager.ensure_stopped
stack_ensure_stopped(p, stack) ==
    CASE ~Truthy(stack.id) -> F("fail_json", "Cannot stop a non-existent stack.")
      [] stack.status = STOPPED -> D(<<>>, FALSE, "Stack is not running", {})
      [] OTHER -> D(Unless(p.check_mode, <<"stop">>), TRUE, "Stack stopped", {})

\* states_mapping.get(self.state) and the call of the state function: it is the
\* record the manager holds, old the record as fetched
StateFunction(kind, p, it, old, rid) ==
    CASE kind = "stack" /\ p.state = "present"    -> stack_ensure_present(p, it, old)
      [] kind = "stack" /\ p.state = "absent"     -> stack_ensure_absent(p, it)
      [] kind = "stack" /\ p.state = "redeployed" -> stack_ensure_redeployed(p, it)
      [] kind = "stack" /\ p.state = "started"    -> stack_ensure_started(p, it)
      [] kind = "stack" /\ p.state = "stopped"    -> stack_ensure_stopped(p, it)
      [] kind # "stack" /\ p.state = "absent"     -> ensure_absent(kind, p, it)
      [] kind = "tag" /\ p.state = "present"      -> tag_ensure_present(p, it)
      [] kind = "group" /\ p.state = "present"    -> group_ensure_present(p, it, rid)
      [] kind = "config" /\ p.state = "present"   -> config_ensure_present(p, it)
      [] kind = "secret" /\ p.state = "present"   -> secret_ensure_present(p, it)
      [] kind = "network" /\ p.state = "present"  -> network_ensure_present(p, it)
      [] kind = "environment" /\ p.state = "present" ->
            environment_ensure_present(p, it, rid)
      [] kind = "environment" /\ p.state = "healthy" -> environment_ensure_healthy(p, it)
      [] OTHER -> F("fail_json", "Internal error: state is not mapped.")

(***************************************************************************)
(* The backend as the modules see it: the replies to their transport calls *)
(***************************************************************************)
TLSKeys == {"TLS", "TLSCACert", "TLSCert", "TLSKey", "TLSSkipVerify"}

GitKeys == {"RepositoryReferenceName", "TlsskipVerify", "RepositoryAuthentication",
            "RepositoryUsername", "RepositoryAuthorizationType", "RepositoryPassword"}

\* json.dumps of a list, and the backend's reading of a form field
json_dumps(v) == <<"json">> \o v

json_loads(v) == IF Len(v) > 0 /\ v[1] = "json" THEN Tail(v) ELSE v

\* the GET format of a stored record: an environment's TLS fields nested in
\* TLSConfig, a repository stack's git fields nested in GitConfig
Render(kind, rec) ==
    CASE kind = "environment" ->
            Merge(Restrict(rec, DOMAIN rec \ TLSKeys),
                  [TLSConfig |-> Restrict(rec, TLSKeys)])
      [] kind = "stack" /\ "RepositoryURL" \in DOMAIN rec ->
            Merge(Restrict(rec, DOMAIN rec \ (GitKeys \ {"RepositoryPassword"})),
                  [GitConfig |->
                     [ReferenceName |-> Get(rec, "RepositoryReferenceName"),
                      TLSSkipVerify |-> Get(rec, "TlsskipVerify"),
                      Authentication |->
                         IF Truthy(Get(rec, "RepositoryAuthentication"))
                         THEN [Username |-> Get(rec, "RepositoryUsername"),
                               AuthorizationType |-> Get(rec, "RepositoryAuthorizationType")]
                         ELSE EmptyDict]])
      [] OTHER -> rec

\* SwarmCRUD.inspect_swarm through EnvironmentCRUD.get_swarm_info
get_swarm_info(endpoint_id) == <<"swarm">> \o endpoint_id

\* a variant of _process_single_item that drops TLSConfig without lifting
environment_process_single_item_dropping(it) ==
    LET enriched == IF Get(it, "Type") = S("4") /\ Truthy(Get(it, "Heartbeat"))
                    THEN Merge(it, [Swarm |-> get_swarm_info(it["Id"])]) ELSE it
    IN  Restrict(enriched, DOMAIN enriched \ {"TLSConfig"})

\* EnvironmentCRUD._process_single_item
environment_process_single_item(it) ==
    LET enriched == IF Get(it, "Type") = S("4") /\ Truthy(Get(it, "Heartbeat"))
                    THEN Merge(it, [Swarm |-> get_swarm_info(it["Id"])]) ELSE it
    IN  IF "TLSConfig" \notin DOMAIN enriched THEN enriched
        ELSE Merge(Restrict(enriched, DOMAIN enriched \ {"TLSConfig"}),
                   Restrict(enriched["TLSConfig"], TLSKeys))

\* StackCRUD._process_single_item
stack_process_single_item(it) ==
    LET git_configs == IF "GitConfig" \in DOMAIN it THEN it["GitConfig"] ELSE EmptyDict
        rest == Restrict(it, DOMAIN it \ {"GitConfig"})
    IN  IF git_configs = EmptyDict THEN rest
        ELSE Merge(rest,
               [RepositoryAuthentication |->
                    IF git_configs["Authentication"] # EmptyDict THEN S("true") ELSE S("false"),
                RepositoryAuthorizationType |->
                    Get(git_configs["Authentication"], "AuthorizationType"),
                RepositoryReferenceName |-> git_configs["ReferenceName"],
                RepositoryUsername |-> Get(git_configs["Authentication"], "Username"),
                TlsskipVerify |-> git_configs["TLSSkipVerify"]])

\* _process_response on the body of a reply
_process_response(kind, data) ==
    CASE data = EmptyDict -> data
      [] kind = "environment" -> environment_process_single_item(data)
      [] kind = "stack" -> stack_process_single_item(data)
      [] OTHER -> _process_single_item(kind, data)

\* list_items: the list the backend returns, each record normalised; the
\* stack lookup's swarm filter is applied by the backend
list_items(kind, p, rem) ==
    LET shown == IF kind = "stack" /\ Truthy(p.swarm_id)
                 THEN SelectSeq(rem[kind], LAMBDA r : Get(r, "SwarmId") = p.swarm_id)
                 ELSE rem[kind]
    IN  [i \in 1..Len(shown) |-> _process_response(kind, Render(kind, shown[i]))]

\* _make_request: the statuses that are not an error
OkStatuses == {200, 201, 204}

\* the replies of a backend to the GET of an id it does not know: the error
\* status, or the empty reply the lookups by id map to "no record"
NotFoundReplies == {[status |-> 404, body |-> EmptyDict], [status |-> 204, body |-> EmptyDict]}

\* BaseCRUD.get_item_by_id, given the reply to its GET
get_item_by_id(kind, reply) ==
    IF reply.status \notin OkStatuses
    THEN [exc |-> "PortainerApiError", item |-> EmptyDict]
    ELSE [exc |-> "none", item |-> _process_response(kind, reply.body)]

\* the record the backend stores for a create call
StoredOnCreate(kind, data, p) ==
    CASE kind = "environment" ->
            CreatedRecord(kind, [k \in DOMAIN data |->
                                    IF k = "TagIds" THEN json_loads(data[k]) ELSE data[k]])
      [] kind = "stack" ->
            LET kept == Restrict(data, DOMAIN data \ {"SwarmID", "file"})
                swarm == IF "SwarmID" \in DOMAIN data THEN [SwarmId |-> data["SwarmID"]]
                         ELSE EmptyDict
                env == IF "Env" \in DOMAIN data THEN [Env |-> json_loads(data["Env"])]
                       ELSE EmptyDict
            IN  CreatedRecord(kind,
                    Merge(Merge(Merge(kept, swarm), env),
                          [EndpointId |-> p.endpoint_id, Status |-> RUNNING]))
      [] OTHER -> CreatedRecord(kind, data)

\* the record the backend keeps after an update call
StoredOnUpdate(kind, rec, data) ==
    Merge(Merge(rec, data), (id_field(kind) :> rec[id_field(kind)]))

ReplaceAt(s, i, r) == [j \in 1..Len(s) |-> IF j = i THEN r ELSE s[j]]

\* the number of an id
IdNum(v) == CHOOSE n \in 0..nextId : ToString(n) = v[1]

(***************************************************************************)
(* main() of a module: run_checks, the manager's lookups, the state        *)
(* function's transport calls one at a time, exit_json or fail_json.       *)
(***************************************************************************)
MaxRuns == 2

\* time.sleep(5) of wait_for_heartbeat
SleepInterval == 5

\* a variant of sleep that lasts two intervals
sleep_twice(e) == e + 2 * SleepInterval

\* the time since loop entry after one more sleep(5), none passing otherwise
sleep(e) == e + SleepInterval

\* a variant of the timeout test that allows one more interval
timeout_exceeded_late(e, timeout) == e > timeout + SleepInterval

\* (time() - start) > self.timeout
timeout_exceeded(e, timeout) == e > timeout

EmptyIds == [group_id |-> 0, tag_ids |-> <<>>]

\* the parameter that addresses the resource by id
id_param(kind) ==
    CASE kind = "tag" -> "tag_id"
      [] kind = "group" -> "group_id"
      [] kind = "environment" -> "endpoint_id"
      [] kind = "stack" -> "stack_id"
      [] kind = "config" -> "config_id"
      [] kind = "secret" -> "secret_id"
      [] kind = "network" -> "network_id"

\* self.<kind> = {} of the managers, Stack() of the stack's state manager
NoItem(kind) == IF kind = "stack" THEN Stack ELSE EmptyDict

\* the id of the record the manager holds
ItemId(kind, it) == IF kind = "stack" THEN it.id[1] ELSE it[id_field(kind)][1]

\* the state manager's values once update_state has seen the stack
Eff(kind, p, it) == IF kind = "stack" THEN update_state(p, it) ELSE p

\* the names the manager resolves to ids before its lookup, in order
ResolutionList(kind, p) ==
    LET tag_names == IF Truthy(p.tags) THEN Tail(p.tags) ELSE <<>>
        tags == [i \in 1..Len(tag_names) |->
                    [kind |-> "tag", name |-> tag_names[i], create |-> p.create_tags]]
    IN  CASE kind = "group" -> IF Truthy(p.tag_ids) THEN <<>> ELSE tags
          [] kind = "environment" ->
                (IF Truthy(p.group)
                 THEN <<[kind |-> "group", name |-> p.group[1], create |-> p.create_group]>>
                 ELSE <<>>) \o tags
          [] OTHER -> <<>>

\* the payload of the create call
CreatePayload(kind, p, old, rid) ==
    CASE kind = "environment" ->
            LET data == _get_environment_data(p, old, rid, {})
            IN  Merge([Name |-> p.name],
                      [k \in DOMAIN data |->
                          IF k = "TagIds" THEN json_dumps(data[k]) ELSE data[k]])
      [] kind = "stack" ->
            LET data == get_create_data(p, old)
            IN  Merge([Name |-> p.name],
                      [k \in DOMAIN data |->
                          IF k = "Env" /\ p.stack_source = S("file")
                          THEN json_dumps(data[k]) ELSE data[k]])
      [] OTHER -> Merge([Name |-> p.name], _get_data(kind, p, old, rid))

\* the payload of the update call
UpdatePayload(kind, p, old, rid) ==
    CASE kind = "environment" -> _get_environment_data(p, old, rid, {})
      [] kind = "stack" -> get_update_data(p, old)
      [] OTHER -> _get_data(kind, p, old, rid)

\* results[<kind>]: the record held, or the desired data when none is held
Resource(kind, p, it, old, rid) ==
    CASE kind = "stack" ->
            IF to_dict(it) # EmptyDict THEN to_dict(it)
            ELSE Merge([Id |-> p.stack_id, EndpointId |-> p.endpoint_id,
                        SwarmId |-> p.swarm_id], get_create_data(p, old))
      [] it # EmptyDict -> it
      [] kind = "environment" -> _get_environment_data(p, old, rid, {})
      [] OTHER -> _get_data(kind, p, old, rid)

\* the payload of exit_json
Success(d, res) ==
    [failed |-> FALSE, class |-> "none", changed |-> d.changed, msg |-> d.msg,
     summary |-> d.summary, duplicate_ids |-> <<>>, resource |-> res]

\* the payload of fail_json
Failure(class, msg, dups) ==
    [failed |-> TRUE, class |-> class, changed |-> FALSE, msg |-> msg,
     summary |-> {}, duplicate_ids |-> dups, resource |-> EmptyDict]

\* the keys of the payload fail_json is given: the handler of a transport error
\* and the ping add the status and the body of the reply to the message
failure_keys(class) ==
    IF class \in {"api", "ping"} THEN {"msg", "status", "body"} ELSE {"msg"}

\* what the state function decided when it was called
Decision ==
    StateFunction(module, Eff(module, params, old_item), old_item, old_item, ids)

\* the stack the manager holds when the state function returns without a call:
\* a dry-run update applies the change-set to it
AfterDecision(kind, p, it) ==
    IF kind = "stack" /\ p.state = "present" /\ p.check_mode /\ Truthy(it.id)
         /\ stack_needs_update(p, it).changed
    THEN update_from_dict(it, stack_needs_update(p, it).changes)
    ELSE it

\* the record a manager holds after the reply to a create, update or redeploy
Held(kind, it, response) ==
    IF kind = "stack" THEN update_from_dict(it, response) ELSE response

\* fail_json, or an exception caught by main()
Abort(class, msg, dups) ==
    /\ pc' = "failed"
    /\ results' = Failure(class, msg, dups)
    /\ plan' = <<>>

\* the state function goes on after a call: to its next call, or main() exits
Proceed(it) ==
    /\ plan' = Tail(plan)
    /\ item' = it
    /\ IF Tail(plan) = <<>>
       THEN /\ pc' = "done"
            /\ results' = Success(Decision,
                                  Resource(module, Eff(module, params, it), it, old_item, ids))
       ELSE /\ pc' = "act"
            /\ results' = results

(***************************************************************************)
(* The inputs: per module, the parameters an invocation may be given (those *)
(* the argument specification accepts) and the backends it may face.       *)
(***************************************************************************)
TagRec(id, name) == [ID |-> S(id), Name |-> S(name)]

GroupRec(id, name, description, tag_ids) ==
    [Id |-> S(id), Name |-> S(name), Description |-> description, TagIDs |-> L(tag_ids)]

NoRemote == [k \in Kinds |-> <<>>]

TagInputs ==
    {p \in [name : {None, S("a")}, tag_id : {None, S("1"), S("9")},
            state : {"present", "absent"}, check_mode : BOOLEAN] :
        p.name # None \/ p.tag_id # None}

TagRemotes ==
    {[NoRemote EXCEPT !["tag"] = t] :
        t \in {<<>>, <<TagRec("1", "a")>>, <<TagRec("1", "a"), TagRec("2", "a")>>,
               <<TagRec("1", "b"), TagRec("2", "a")>>}}

GroupInputs ==
    {p \in [name : {S("g")}, group_id : {None, S("1")}, description : {None, S("d")},
            tags : {None, L(<<"a">>), L(<<"a", "b">>)}, tag_ids : {None, L(<<"1">>)},
            create_tags : BOOLEAN, state : {"present", "absent"}, check_mode : BOOLEAN] :
        /\ p.tags = None \/ p.tag_ids = None
        /\ p.create_tags => p.tags # None
        /\ p.tags = L(<<"a", "b">>) => p.create_tags
        /\ p.state = "absent" => p.description = None /\ p.tag_ids = None}

GroupRemotes ==
    {[NoRemote EXCEPT !["group"] = g, !["tag"] = t] :
        g \in {<<>>, <<GroupRec("1", "g", S(""), <<>>)>>,
               <<GroupRec("1", "g", S("d"), <<"1">>)>>,
               <<GroupRec("1", "g", S(""), <<>>), GroupRec("2", "g", S("d"), <<>>)>>},
        t \in {<<>>, <<TagRec("1", "a")>>, <<TagRec("1", "a"), TagRec("2", "a")>>}}

\* a config or secret as the tests' backend returns it, and as Docker does
DataRec(id, name, content) == [ID |-> S(id), Name |-> S(name), Data |-> b64encode(S(content))]

DockerRec(id, name, content) ==
    [ID |-> S(id), Spec |-> [Name |-> S(name), Data |-> b64encode(S(content))]]

DataInputs ==
    {p \in [name : {None, S("c")}, endpoint_id : {S("1")},
            content : {None, S("x"), S("y")}, file : {None, S("f")},
            b64_encoded : BOOLEAN, force : BOOLEAN,
            state : {"present", "absent"}, check_mode : BOOLEAN, the_id : {None, S("1")}] :
        /\ p.content = None \/ p.file = None
        /\ p.state = "present" => p.content # None \/ p.file # None
        /\ p.state = "absent" => p.content = None /\ p.file = None /\ ~p.force
        /\ p.b64_encoded => p.content = S("x")}

ConfigInputs ==
    {[name |-> p.name, endpoint_id |-> p.endpoint_id, content |-> p.content,
      file |-> p.file, b64_encoded |-> p.b64_encoded, force |-> p.force,
      state |-> p.state, check_mode |-> p.check_mode, config_id |-> p.the_id] :
        p \in DataInputs}

SecretInputs ==
    {[name |-> p.name, endpoint_id |-> p.endpoint_id, content |-> p.content,
      file |-> p.file, b64_encoded |-> p.b64_encoded, force |-> p.force,
      state |-> p.state, check_mode |-> p.check_mode, secret_id |-> p.the_id] :
        p \in DataInputs}

DataRemotes(kind) ==
    {[NoRemote EXCEPT ![kind] = c] :
        c \in {<<>>, <<DataRec("1", "c", "x")>>, <<DockerRec("1", "c", "x")>>,
               <<DataRec("1", "c", "x"), DataRec("2", "c", "y")>>}}

NetworkRec(id, name, driver) == [Id |-> S(id), Name |-> S(name), Driver |-> S(driver)]

NetworkInputs ==
    {p \in [name : {None, S("n")}, network_id : {None, S("1")}, endpoint_id : {S("1")},
            driver : {S("bridge"), S("overlay")}, scope : {None},
            attachable : {None}, internal : {None, S("true")}, ingress : {None},
            force : BOOLEAN, state : {"present", "absent"}, check_mode : BOOLEAN] :
        p.state = "absent" => p.driver = S("bridge") /\ p.internal = None /\ ~p.force}

NetworkRemotes ==
    {[NoRemote EXCEPT !["network"] = n] :
        n \in {<<>>, <<NetworkRec("1", "n", "bridge")>>,
               <<NetworkRec("1", "n", "bridge"), NetworkRec("2", "n", "overlay")>>}}

EnvRec(id, name, url, heartbeat, type) ==
    [Id |-> S(id), Name |-> S(name), URL |-> S(url), Heartbeat |-> S(heartbeat),
     Type |-> S(type), GroupId |-> S("1"), TagIds |-> L(<<>>), TLS |-> S("false")]

\* timeout of the health wait, in seconds
Timeouts == {4, 5, 10}

EnvironmentInputs ==
    {p \in [name : {S("e")}, endpoint_id : {None, S("1")},
            creation_type : {None, S("4")}, url : {None, S("u")}, tls : {None, S("true")},
            edge_check_in_interval : {None}, edge_tunnel_server_address : {None},
            group : {None, S("g")}, create_group : BOOLEAN,
            tags : {None, L(<<"a">>)}, create_tags : BOOLEAN,
            timeout : Timeouts, state : {"present", "absent", "healthy"},
            check_mode : BOOLEAN] :
        /\ p.creation_type = S("4") => p.url # None
        /\ p.tls # None => p.url # None /\ p.creation_type = None
        /\ p.create_group => p.group # None
        /\ p.create_tags => p.tags # None /\ p.create_group
        /\ p.state # "healthy" => p.timeout = 5
        /\ p.state # "present" =>
              /\ p.creation_type = None /\ p.url = None /\ p.tls = None
              /\ p.tags = None /\ ~p.create_group}

EnvironmentRemotes ==
    {[NoRemote EXCEPT !["environment"] = e, !["group"] = r.g, !["tag"] = r.t] :
        e \in {<<>>, <<EnvRec("1", "e", "u", "true", "4")>>,
               <<EnvRec("1", "e", "w", "false", "1")>>,
               <<Merge([EnvRec("1", "e", "u", "true", "4") EXCEPT !.TagIds = L(<<"1">>)],
                       [TLSSkipVerify |-> S("true")])>>,
               <<EnvRec("1", "e", "u", "true", "1"), EnvRec("2", "e", "u", "false", "1")>>},
        r \in {[g |-> <<>>, t |-> <<>>],
               [g |-> <<GroupRec("1", "g", S(""), <<>>)>>, t |-> <<TagRec("1", "a")>>],
               [g |-> <<GroupRec("1", "g", S(""), <<>>), GroupRec("2", "g", S(""), <<>>)>>,
                t |-> <<>>]}}

StackParams ==
    [name |-> None, stack_id |-> None, state |-> "present", stack_type |-> None,
     stack_source |-> None, endpoint_id |-> None, swarm_id |-> None, prune |-> None,
     pull_images |-> None, env |-> None, additional_files |-> None, autoupdate |-> None,
     compose_file |-> None, repository_authentication |-> None,
     repository_password |-> None, update_password |-> FALSE, refs_name |-> None,
     repository_url |-> None, repository_username |-> None, tls_skip_verify |-> None,
     file |-> None, check_mode |-> FALSE]

FileStack(type) ==
    [StackParams EXCEPT !.name = S("s"), !.stack_type = S(type), !.stack_source = S("file"),
                        !.endpoint_id = S("1"), !.file = S("f"), !.env = L(<<"e">>),
                        !.swarm_id = IF type = "swarm" THEN S("sw") ELSE None]

RepositoryStack(type, refs) ==
    [StackParams EXCEPT !.name = S("s"), !.stack_type = S(type),
                        !.stack_source = S("repository"), !.endpoint_id = S("1"),
                        !.repository_url = S("r"), !.compose_file = S("c"),
                        !.refs_name = S(refs), !.repository_authentication = S("false"),
                        !.swarm_id = IF type = "swarm" THEN S("sw") ELSE None]

\* the parameter sets that name a type and a source
TypedStacks ==
    {FileStack("standalone"), FileStack("swarm"),
     [FileStack("standalone") EXCEPT !.env = None],
     [FileStack("standalone") EXCEPT !.endpoint_id = S("2")],
     [FileStack("standalone") EXCEPT !.name = None, !.stack_id = S("1"),
                                     !.endpoint_id = None],
     RepositoryStack("swarm", "main"), RepositoryStack("swarm", "dev"),
     [RepositoryStack("swarm", "main") EXCEPT !.update_password = TRUE,
                                              !.repository_authentication = S("true"),
                                              !.repository_username = S("u"),
                                              !.repository_password = S("p")],
     [RepositoryStack("swarm", "main") EXCEPT !.repository_authentication = S("true"),
                                              !.repository_username = S("u"),
                                              !.repository_password = S("p")],
     [RepositoryStack("swarm", "dev") EXCEPT !.name = None, !.stack_id = S("1"),
                                             !.endpoint_id = None, !.swarm_id = None],
     RepositoryStack("standalone", "dev"),
     [FileStack("standalone") EXCEPT !.file = None],
     [FileStack("standalone") EXCEPT !.endpoint_id = None],
     [FileStack("swarm") EXCEPT !.endpoint_id = None],
     [RepositoryStack("swarm", "main") EXCEPT !.repository_authentication = S("true")],
     [RepositoryStack("swarm", "main") EXCEPT !.repository_url = None]}

\* the parameter sets that name neither, for the states that need only the id
UntypedStacks ==
    {[StackParams EXCEPT !.name = S("s"), !.endpoint_id = S("1")],
     [StackParams EXCEPT !.stack_id = S("1")],
     [StackParams EXCEPT !.name = S("s")],
     [StackParams EXCEPT !.name = S("s"), !.endpoint_id = S("1"),
                         !.stack_type = S("swarm")]}

StackInputs ==
    {[q EXCEPT !.state = st, !.check_mode = cm] :
        q \in TypedStacks, st \in {"present", "absent", "redeployed", "started", "stopped"},
        cm \in BOOLEAN}
    \cup
    {[q EXCEPT !.state = st, !.check_mode = cm] :
        q \in UntypedStacks, st \in {"absent", "redeployed", "started", "stopped"},
        cm \in BOOLEAN}

FileStackRec(id, name, endpoint_id, status) ==
    [Id |-> S(id), Name |-> S(name), EndpointId |-> S(endpoint_id), Status |-> status,
     Env |-> L(<<"e">>)]

RepositoryStackRec(id, name, endpoint_id, refs, status) ==
    [Id |-> S(id), Name |-> S(name), EndpointId |-> S(endpoint_id), Status |-> status,
     SwarmId |-> S("sw"), RepositoryURL |-> S("r"), ComposeFile |-> S("c"),
     RepositoryReferenceName |-> S(refs), RepositoryAuthentication |-> S("false")]

StackRemotes ==
    {[NoRemote EXCEPT !["stack"] = k] :
        k \in {<<>>, <<FileStackRec("1", "s", "1", RUNNING)>>,
               <<RepositoryStackRec("1", "s", "1", "main", STOPPED)>>,
               <<Merge(RepositoryStackRec("1", "s", "1", "main", RUNNING),
                       [RepositoryPassword |-> S("old")])>>,
               <<FileStackRec("1", "s", "1", RUNNING), FileStackRec("2", "s", "2", RUNNING)>>,
               <<FileStackRec("1", "s", "1", STOPPED), FileStackRec("2", "s", "1", RUNNING)>>}}

Inputs(kind) ==
    CASE kind = "tag" -> TagInputs
      [] kind = "group" -> GroupInputs
      [] kind = "environment" -> EnvironmentInputs
      [] kind = "stack" -> StackInputs
      [] kind = "config" -> ConfigInputs
      [] kind = "secret" -> SecretInputs
      [] kind = "network" -> NetworkInputs

Remotes(kind) ==
    CASE kind = "tag" -> TagRemotes
      [] kind = "group" -> GroupRemotes
      [] kind = "environment" -> EnvironmentRemotes
      [] kind = "stack" -> StackRemotes
      [] kind = "network" -> NetworkRemotes
      [] OTHER -> DataRemotes(kind)

\* the name a stored record goes by
NameOf(rec) == IF "Name" \in DOMAIN rec THEN rec["Name"] ELSE SpecName(rec)

\* what the backend held when a name was looked up: the ids of the records of
\* that name, and of those among them the lookup's filters let through (a stack
\* lookup is scoped to the swarm and the endpoint it is given), in remote order
Looked(kind, name, p, rem, at) ==
    LET named == SelectSeq(rem[kind], LAMBDA r : NameOf(r) = name)
        scoped == SelectSeq(named, LAMBDA r :
                     kind = "stack" =>
                        /\ Truthy(p.swarm_id) => Get(r, "SwarmId") = p.swarm_id
                        /\ Truthy(p.endpoint_id) => Get(r, "EndpointId") = p.endpoint_id)
    IN  [kind |-> kind, name |-> name, at |-> at,
         named |-> [i \in 1..Len(named) |-> named[i][id_field(kind)]],
         scoped |-> [i \in 1..Len(scoped) |-> scoped[i][id_field(kind)]]]

(***************************************************************************)
(* Specification Spec: one module, invoked against a backend, then invoked *)
(* again with the same parameters.                                         *)
(***************************************************************************)
Init ==
    /\ module \in Kinds
    /\ remote \in Remotes(module)
    /\ nextId = 3
    /\ pc = "idle"
    /\ params = EmptyDict
    /\ pending = <<>>
    /\ ids = EmptyIds
    /\ item = EmptyDict
    /\ old_item = EmptyDict
    /\ plan = <<>>
    /\ results = EmptyDict
    /\ log = <<>>
    /\ lookups = <<>>
    /\ elapsed = 0
    /\ run = 0
    /\ start = EmptyDict
    /\ prev = EmptyDict
    /\ pure = EmptyDict

\* the module is invoked with some parameters
Start ==
    /\ pc = "idle"
    /\ \E p \in Inputs(module) : params' = p
    /\ pc' = "checks"
    /\ run' = 1
    /\ start' = [remote |-> remote, nextId |-> nextId]
    /\ item' = NoItem(module)
    /\ old_item' = NoItem(module)
    /\ UNCHANGED <<module, remote, nextId, pending, ids, plan, results, log, lookups,
                   elapsed, prev, pure>>

\* the module is invoked again once it has exited: with the same parameters
\* against the backend as it now is ("repeat"), or with the dry-run switch
\* flipped against the backend as it was when the last invocation started
\* ("compare")
Rerun ==
    /\ pc = "done"
    /\ run < MaxRuns
    /\ \E how \in {"repeat", "compare"} :
        /\ params' = [params EXCEPT !.check_mode = IF how = "compare" THEN ~@ ELSE @]
        /\ remote' = IF how = "compare" THEN start.remote ELSE remote
        /\ nextId' = IF how = "compare" THEN start.nextId ELSE nextId
        /\ start' = IF how = "compare" THEN start
                    ELSE [remote |-> remote, nextId |-> nextId]
        /\ prev' = [how |-> how, params |-> params, changed |-> results.changed,
                    msg |-> results.msg, summary |-> results.summary]
    /\ pc' = "checks"
    /\ run' = run + 1
    /\ pending' = <<>>
    /\ ids' = EmptyIds
    /\ item' = NoItem(module)
    /\ old_item' = NoItem(module)
    /\ plan' = <<>>
    /\ results' = EmptyDict
    /\ log' = <<>>
    /\ lookups' = <<>>
    /\ elapsed' = 0
    /\ UNCHANGED <<module, pure>>

\* run_checks (the ping, skipped in a dry run), then the construction of the
\* manager and, for a stack, validate_args
RunChecks ==
    /\ pc = "checks"
    /\ \E ok \in BOOLEAN :
        /\ params.check_mode => ok
        /\ log' = IF params.check_mode THEN log
                  ELSE Append(log, Call("ping", "GET", <<"system", "status">>, EmptyDict, ok))
        /\ CASE ~ok -> Abort("ping", "Portainer server not reachable", <<>>) /\ pending' = pending
             [] ok /\ module = "stack" /\ ~config_supported(params) ->
                    Abort("exception", "Unsupported stack configuration", <<>>)
                        /\ pending' = pending
             [] ok /\ module = "stack" /\ config_supported(params)
                   /\ validate_args(params) # "ok" ->
                    Abort("fail_json", validate_args(params), <<>>) /\ pending' = pending
             [] OTHER ->
                    /\ pending' = ResolutionList(module, params)
                    /\ pc' = IF pending' # <<>> THEN "resolve" ELSE "lookup"
                    /\ UNCHANGED <<results, plan>>
    /\ UNCHANGED <<module, remote, nextId, params, ids, item, old_item, lookups, elapsed,
                   run, start, prev, pure>>

\* the id a resolved name adds to the manager's ids
WithId(rid, kind, n) ==
    IF kind = "group" THEN [rid EXCEPT !.group_id = n]
    ELSE [rid EXCEPT !.tag_ids = Append(@, n)]

AfterResolution(rest) == IF rest # <<>> THEN "resolve" ELSE "lookup"

\* resolve_name_to_id up to its create call: the lookup of the next name
ResolveLookup ==
    /\ pc = "resolve"
    /\ LET h == Head(pending)
           r == validate_single_item(h.kind, list_items(h.kind, params, remote),
                                     S(h.name), EmptyDict)
       IN  /\ log' = Append(log, Call("list", "GET", endpoint(h.kind, params), EmptyDict, TRUE))
           /\ lookups' = Append(lookups, Looked(h.kind, S(h.name), params, remote, Len(log')))
           /\ CASE r.fail = "ambiguous" ->
                      Abort("ambiguous", "Multiple items found", r.duplicate_ids)
                          /\ UNCHANGED <<pending, ids>>
                [] r.fail = "none" /\ r.item # EmptyDict ->
                      /\ ids' = WithId(ids, h.kind, IdNum(r.item[id_field(h.kind)]))
                      /\ pending' = Tail(pending)
                      /\ pc' = AfterResolution(Tail(pending))
                      /\ UNCHANGED <<results, plan>>
                [] r.fail = "none" /\ r.item = EmptyDict /\ h.create ->
                      /\ pc' = "resolve_create"
                      /\ UNCHANGED <<pending, ids, results, plan>>
                [] OTHER ->
                      Abort("fail_json", "does not exist, use the create flag", <<>>)
                          /\ UNCHANGED <<pending, ids>>
    /\ UNCHANGED <<module, remote, nextId, params, item, old_item, elapsed, run, start,
                   prev, pure>>

\* resolve_name_to_id: the create call for a name that does not exist
ResolveCreate ==
    /\ pc = "resolve_create"
    /\ LET h == Head(pending)
           data == (name_field(h.kind) :> S(h.name))
       IN  \E ok \in BOOLEAN :
            /\ log' = Append(log, Call("create", "POST", _get_create_endpoint(h.kind, params), data, ok))
            /\ IF ok
               THEN /\ remote' = [remote EXCEPT ![h.kind] = Append(@, CreatedRecord(h.kind, data))]
                    /\ nextId' = nextId + 1
                    /\ ids' = WithId(ids, h.kind, nextId)
                    /\ pending' = Tail(pending)
                    /\ pc' = AfterResolution(Tail(pending))
                    /\ UNCHANGED <<results, plan>>
               ELSE /\ Abort("api", "API request failed", <<>>)
                    /\ UNCHANGED <<remote, nextId, ids, pending>>
    /\ UNCHANGED <<module, params, item, old_item, lookups, elapsed, run, start, prev, pure>>

\* get_<kind>: what the manager's lookup may return, and the call it issued
LookupOutcomes(kind, p, rem) ==
    LET the_id == p[id_param(kind)]
        found == {i \in 1..Len(rem[kind]) : rem[kind][i][id_field(kind)] = the_id}
        replies == IF found # {}
                   THEN {[status |-> 200, body |-> Render(kind, rem[kind][i])] : i \in found}
                   ELSE NotFoundReplies
        filters == IF kind = "stack" /\ Truthy(p.endpoint_id)
                   THEN [EndpointId |-> p.endpoint_id] ELSE EmptyDict
    IN  CASE Truthy(the_id) ->
               {[fail |-> IF get_item_by_id(kind, reply).exc = "none" THEN "none" ELSE "api",
                 item |-> get_item_by_id(kind, reply).item, duplicate_ids |-> <<>>,
                 calls |-> <<Call("get", "GET", endpoint(kind, p) \o the_id, EmptyDict,
                                  reply.status \in OkStatuses)>>] : reply \in replies}
          [] kind = "stack" /\ ~Truthy(p.name) ->
               {[fail |-> "none", item |-> EmptyDict, duplicate_ids |-> <<>>, calls |-> <<>>]}
          [] OTHER ->
               LET r == validate_single_item(kind, list_items(kind, p, rem), p.name, filters)
               IN  {[fail |-> r.fail, item |-> r.item, duplicate_ids |-> r.duplicate_ids,
                     calls |-> IF r.fail = "exception" THEN <<>>
                               ELSE <<Call("list", "GET", endpoint(kind, p), EmptyDict, TRUE)>>]}

\* the manager's lookup of the resource, then the state function up to its
\* first transport call
Lookup ==
    /\ pc = "lookup"
    /\ \E r \in LookupOutcomes(module, params, remote) :
        LET it == IF module # "stack" THEN r.item
                  ELSE IF r.item # EmptyDict THEN update_from_dict(Stack, r.item) ELSE Stack
            p == Eff(module, params, it)
            d == StateFunction(module, p, it, it, ids)
        IN  /\ log' = log \o r.calls
            /\ lookups' = IF r.calls # <<>> /\ r.calls[1].op = "list"
                           THEN Append(lookups,
                                       Looked(module, params.name, params, remote, Len(log')))
                           ELSE lookups
            /\ CASE r.fail = "ambiguous" ->
                       Abort("ambiguous", "Multiple items found", r.duplicate_ids)
                           /\ UNCHANGED <<item, old_item>>
                 [] r.fail = "exception" ->
                       Abort("exception", "Name should not be empty", <<>>)
                           /\ UNCHANGED <<item, old_item>>
                 [] r.fail = "api" ->
                       Abort("api", "API request failed", <<>>) /\ UNCHANGED <<item, old_item>>
                 [] r.fail = "none" /\ d.fail # "none" ->
                       Abort(d.fail, d.msg, <<>>) /\ item' = it /\ old_item' = it
                 [] r.fail = "none" /\ d.fail = "none" /\ d.plan = <<>> ->
                       /\ item' = AfterDecision(module, p, it)
                       /\ old_item' = it
                       /\ plan' = <<>>
                       /\ pc' = "done"
                       /\ results' = Success(d, Resource(module, p, item', it, ids))
                 [] OTHER ->
                       /\ item' = it
                       /\ old_item' = it
                       /\ plan' = d.plan
                       /\ pc' = "act"
                       /\ results' = results
    /\ UNCHANGED <<module, remote, nextId, params, pending, ids, elapsed, run, start,
                   prev, pure>>

\* a variant of CallFailed that swallows the error and goes on
CallFailed_ignored ==
    /\ Proceed(item)
    /\ UNCHANGED <<remote, nextId>>

\* the reply to a call of the state function that failed
CallFailed ==
    /\ Abort("api", "API request failed", <<>>)
    /\ UNCHANGED <<remote, nextId, item>>

\* create_<kind>: create_item of the CRUD resource
DoCreate ==
    /\ pc = "act" /\ Head(plan) = "create"
    /\ LET p == Eff(module, params, item)
           data == CreatePayload(module, p, old_item, ids)
       IN  CASE module = "stack" /\ ~Truthy(p.name) ->
                   Proceed(item) /\ UNCHANGED <<remote, nextId, log>>
             [] module = "stack" /\ Truthy(p.name) /\ p.stack_source = S("file")
                    /\ "Env" \notin DOMAIN get_create_data(p, old_item) ->
                   /\ Abort("exception", "KeyError: Env", <<>>)
                   /\ UNCHANGED <<remote, nextId, item, log>>
             [] module # "stack" /\ ~Truthy(p.name) ->
                   /\ Abort("exception", "Name should not be empty", <<>>)
                   /\ UNCHANGED <<remote, nextId, item, log>>
             [] OTHER ->
                   \E ok \in BOOLEAN :
                     /\ log' = Append(log, Call("create", "POST", _get_create_endpoint(module, p), data, ok))
                     /\ IF ok
                        THEN /\ remote' = [remote EXCEPT ![module] =
                                              Append(@, StoredOnCreate(module, data, p))]
                             /\ nextId' = nextId + 1
                             /\ Proceed(Held(module, item,
                                    _process_response(module,
                                        Render(module, StoredOnCreate(module, data, p)))))
                        ELSE CallFailed
    /\ UNCHANGED <<module, params, pending, ids, old_item, lookups, elapsed, run, start,
                   prev, pure>>

\* update_<kind>: update_item of the CRUD resource
DoUpdate ==
    /\ pc = "act" /\ Head(plan) = "update"
    /\ LET p == Eff(module, params, item)
           id == ItemId(module, item)
           i == IndexOf(module, id)
           data == UpdatePayload(module, p, old_item, ids)
       IN  \E ok \in BOOLEAN :
            /\ ok => i # 0
            /\ log' = Append(log, Call("update", _update_method(module, p),
                                       _get_update_endpoint(module, p, id), data, ok))
            /\ IF ok
               THEN /\ remote' = [remote EXCEPT ![module] =
                                     ReplaceAt(@, i, StoredOnUpdate(module, @[i], data))]
                    /\ nextId' = nextId
                    /\ Proceed(Held(module, item,
                           _process_response(module,
                               Render(module, StoredOnUpdate(module, remote[module][i], data)))))
               ELSE CallFailed
    /\ UNCHANGED <<module, params, pending, ids, old_item, lookups, elapsed, run, start,
                   prev, pure>>

\* delete_<kind>: delete_item_by_id of the CRUD resource
DoDelete ==
    /\ pc = "act" /\ Head(plan) = "delete"
    /\ LET p == Eff(module, params, item)
           id == ItemId(module, item)
           i == IndexOf(module, id)
       IN  \E ok \in BOOLEAN :
            /\ ok => i # 0
            /\ log' = Append(log, Call("delete", "DELETE", _get_delete_endpoint(module, p, id),
                                       EmptyDict, ok))
            /\ IF ok
               THEN /\ remote' = [remote EXCEPT ![module] = RemoveAt(@, i)]
                    /\ nextId' = nextId
                    /\ Proceed(IF module = "config" THEN EmptyDict ELSE item)
               ELSE CallFailed
    /\ UNCHANGED <<module, params, pending, ids, old_item, lookups, elapsed, run, start,
                   prev, pure>>

\* StackRepository.redeploy_stack: StackCRUD.redeploy
DoRedeploy ==
    /\ pc = "act" /\ Head(plan) = "redeploy"
    /\ LET p == Eff(module, params, item)
           id == ItemId(module, item)
           i == IndexOf(module, id)
           data == get_redeploy_data(p, old_item)
       IN  IF p.stack_type = S("swarm") /\ p.stack_source = S("repository")
           THEN \E ok \in BOOLEAN :
                 /\ ok => i # 0
                 /\ log' = Append(log, Call("redeploy", "PUT", endpoint(module, p) \o <<id, "git", "redeploy">>,
                                            data, ok))
                 /\ IF ok
                    THEN /\ remote' = [remote EXCEPT ![module] =
                                          ReplaceAt(@, i, StoredOnUpdate(module, @[i], data))]
                         /\ nextId' = nextId
                         /\ Proceed(Held(module, item,
                                _process_response(module,
                                    Render(module,
                                        StoredOnUpdate(module, remote[module][i], data)))))
                    ELSE CallFailed
           ELSE /\ Abort("exception", "Unexpected response received", <<>>)
                /\ UNCHANGED <<remote, nextId, item, log>>
    /\ UNCHANGED <<module, params, pending, ids, old_item, lookups, elapsed, run, start,
                   prev, pure>>

\* StackRepository.start_stack and stop_stack
DoStartStop ==
    /\ pc = "act" /\ Head(plan) \in {"start", "stop"}
    /\ LET p == Eff(module, params, item)
           id == ItemId(module, item)
           i == IndexOf(module, id)
       IN  IF ~Truthy(p.endpoint_id)
           THEN Proceed(item) /\ UNCHANGED <<remote, nextId, log>>
           ELSE \E ok \in BOOLEAN :
                 /\ ok => i # 0
                 /\ log' = Append(log, Call(Head(plan), "POST", endpoint(module, p) \o <<id, Head(plan)>>,
                                            EmptyDict, ok))
                 /\ IF ok
                    THEN /\ remote' = [remote EXCEPT ![module][i]["Status"] =
                                          IF Head(plan) = "start" THEN RUNNING ELSE STOPPED]
                         /\ nextId' = nextId
                         /\ Proceed(item)
                    ELSE CallFailed
    /\ UNCHANGED <<module, params, pending, ids, old_item, lookups, elapsed, run, start,
                   prev, pure>>

\* wait_for_heartbeat: one round of its loop
DoPoll ==
    /\ pc = "act" /\ Head(plan) = "poll"
    /\ LET id == ItemId(module, item)
           i == IndexOf(module, id)
       IN  /\ log' = Append(log, Call("poll", "GET", endpoint(module, params) \o <<id>>, EmptyDict, i # 0))
           /\ CASE i = 0 ->
                     Abort("api", "API request failed", <<>>) /\ UNCHANGED <<item, elapsed>>
                [] i # 0 /\ Truthy(Get(remote[module][i], "Heartbeat")) ->
                     Proceed(item) /\ UNCHANGED elapsed
                [] i # 0 /\ ~Truthy(Get(remote[module][i], "Heartbeat"))
                         /\ timeout_exceeded(sleep(elapsed), params.timeout) ->
                     /\ Abort("fail_json", "failed to achieve a healthy status", <<>>)
                     /\ elapsed' = sleep(elapsed)
                     /\ item' = item
                [] OTHER ->
                     /\ elapsed' = sleep(elapsed)
                     /\ UNCHANGED <<pc, plan, results, item>>
    /\ UNCHANGED <<module, remote, nextId, params, pending, ids, old_item, lookups, run,
                   start, prev, pure>>

\* the agent of an environment under health wait checks in
Heartbeat ==
    /\ pc = "act" /\ Head(plan) = "poll"
    /\ \E i \in 1..Len(remote["environment"]) :
        /\ ~Truthy(Get(remote["environment"][i], "Heartbeat"))
        /\ remote' = [remote EXCEPT !["environment"][i] = Merge(@, [Heartbeat |-> S("true")])]
    /\ UNCHANGED <<module, nextId, pc, params, pending, ids, item, old_item, plan, results,
                   log, lookups, elapsed, run, start, prev, pure>>

Next ==
    \/ Start
    \/ Rerun
    \/ RunChecks
    \/ ResolveLookup
    \/ ResolveCreate
    \/ Lookup
    \/ DoCreate
    \/ DoUpdate
    \/ DoDelete
    \/ DoRedeploy
    \/ DoStartStop
    \/ DoPoll
    \/ Heartbeat

Spec == Init /\ [][Next]_vars

\* the module's process keeps running: the loop of wait_for_heartbeat goes on
\* to its next round
SpecLive == Spec /\ WF_vars(DoPoll)

\* no module is running: the state of the specifications of the pure functions
NoInvocation ==
    /\ module = "none"
    /\ remote = EmptyDict
    /\ nextId = 1
    /\ pc = "idle"
    /\ params = EmptyDict
    /\ pending = <<>>
    /\ ids = EmptyDict
    /\ item = EmptyDict
    /\ old_item = EmptyDict
    /\ plan = <<>>
    /\ results = EmptyDict
    /\ log = <<>>
    /\ lookups = <<>>
    /\ elapsed = 0
    /\ run = 0
    /\ start = EmptyDict
    /\ prev = EmptyDict

(***************************************************************************)
(* Specification SpecNeeds: needs_update applied to every pair of dicts    *)
(* over three fields and every skip list.                                  *)
(***************************************************************************)
NUKeys == {"Name", "Description", "TagIDs"}
NUVals == {None, S("a"), S("b")}
NUDicts == UNION {[K -> NUVals] : K \in SUBSET NUKeys}

InitNeeds ==
    /\ \E e \in NUDicts, d \in NUDicts, sk \in SUBSET NUKeys :
        pure = [fn |-> "needs_update", existing |-> e, desired |-> d, skip |-> sk,
                applied |-> FALSE, result |-> EmptyDict]
    /\ NoInvocation

ApplyNeedsUpdate ==
    /\ pure.fn = "needs_update"
    /\ ~pure.applied
    /\ pure' = [pure EXCEPT !.applied = TRUE,
                            !.result = needs_update(pure.existing, pure.desired, pure.skip)]
    /\ UNCHANGED runvars

NextNeeds == ApplyNeedsUpdate

SpecNeeds == InitNeeds /\ [][NextNeeds]_vars

Writes == SelectSeq(log, Mutating)

\* the invocation repeats, with the same parameters and against the backend
\* as it left it, an invocation that exited successfully
Repeating == run > 1 /\ prev.how = "repeat"

\* the invocation ended in failure though every call it issued succeeded
FailedByItself == pc = "failed" /\ \A i \in 1..Len(log) : log[i].ok

\* C1: when a state=present invocation that is no dry run has exited
\* successfully and is repeated with the same parameters on the backend it
\* left, the repetition issues no create, update or delete call and reports
\* changed=false.
C1_PresentTwiceUnchanged ==
    (Repeating /\ params.state = "present" /\ ~params.check_mode) =>
        /\ Writes = <<>>
        /\ pc = "done" => ~results.changed

\* C2: a dry run issues no POST, PUT or DELETE, in any module and for any
\* target state, the resolution of group and tag names included.
C2_DryRunWritesNothing ==
    (run > 0 /\ params.check_mode) => Writes = <<>>

\* C3: a dry run and a run that is none, started from the same backend with the
\* same parameters and both exiting successfully, report the same changed flag
\* and the same set of changed field names.
C3_DryRunEquivalence ==
    (pc = "done" /\ run > 1 /\ prev.how = "compare") =>
        /\ results.changed = prev.changed
        /\ results.summary = prev.summary

\* a group that exists is found to need an update of its description, by the
\* dry run and then by the run that applies it
C3_Witness ==
    /\ pc = "done" /\ run > 1 /\ prev.how = "compare"
    /\ module = "group"
    /\ prev.params.check_mode /\ ~params.check_mode
    /\ results.changed
    /\ results.summary = {"Description"}
    /\ \E i \in 1..Len(log) : log[i].op = "update" /\ log[i].ok

\* C4 as stated: whenever a name is looked up of which the backend holds two
\* or more records, the invocation fails with the ambiguous-name error, the
\* duplicate_ids are the ids of those records in remote order, and the
\* invocation has issued no create, update or delete call.
C4_AmbiguityRefusal_AsStated ==
    \A i \in 1..Len(lookups) :
        Len(lookups[i].named) >= 2 =>
            /\ pc = "failed"
            /\ results.class = "ambiguous"
            /\ results.duplicate_ids = lookups[i].named
            /\ Writes = <<>>

\* C4: whenever a name is looked up of which the backend holds, within the
\* scope of the lookup (for a stack, the swarm and the endpoint the lookup is
\* given), two or more records, the invocation fails with the ambiguous-name
\* error, the duplicate_ids are the ids of those records in remote order, and
\* no create, update or delete call is issued from that lookup on.
C4_AmbiguityRefusal ==
    \A i \in 1..Len(lookups) :
        Len(lookups[i].scoped) >= 2 =>
            /\ pc = "failed"
            /\ results.class = "ambiguous"
            /\ results.duplicate_ids = lookups[i].scoped
            /\ \A j \in 1..Len(log) : j > lookups[i].at => ~Mutating(log[j])

\* a stack lookup scoped to an endpoint that holds two stacks of the name,
\* refused with both ids
C4_Witness ==
    /\ module = "stack"
    /\ pc = "failed"
    /\ results.class = "ambiguous"
    /\ results.duplicate_ids = <<S("1"), S("2")>>
    /\ Len(lookups) = 1 /\ lookups[1].scoped = <<S("1"), S("2")>>

\* C6 as stated: state=absent applied a second time, by name or by id, after
\* an invocation that was no dry run, succeeds (it fails only if a call of its
\* own to the backend fails for the transport's reasons) and reports
\* changed=false, and it issues no delete call.
C6_AbsentTwice ==
    (Repeating /\ params.state = "absent" /\ ~params.check_mode) =>
        /\ pc = "failed" => results.class = "ping"
        /\ pc = "done" => ~results.changed
        /\ Writes = <<>>

\* C7 as stated: when the backend answers the GET of an id with not-found, the
\* invocation goes on with the resource absent: it does not end with the
\* API-request failure.
C7_NotFoundIsAbsent ==
    (pc = "failed" /\ results.class = "api") =>
        ~(\E i \in 1..Len(log) : log[i].op = "get" /\ ~log[i].ok)

\* the desired payload differs from the record that exists
Differs ==
    LET desired == _get_data(module, params, old_item, ids)
    IN  \E k \in DOMAIN desired : desired[k] # None /\ Get(old_item, k) # desired[k]

SkipMessages ==
    {"Config already exists. Update skipped.",
     "The content of the secret was not updated.",
     "The content of the network was not updated."}

\* C8: for config, secret and network, state=present without force on a
\* resource that exists and differs from the desired content exits with
\* changed=false and the message that the update was skipped, having issued no
\* DELETE and no POST.
C8_UpdateBlockedWithoutForce ==
    (module \in DockerKinds /\ run > 0 /\ params.state = "present" /\ ~params.force
        /\ old_item # EmptyDict /\ Differs) =>
        /\ pc = "done"
        /\ ~results.changed
        /\ results.msg \in SkipMessages
        /\ \A i \in 1..Len(log) : log[i].method \notin {"DELETE", "POST"}

\* a config of content x that is not forced to content y
C8_Witness ==
    /\ module = "config" /\ pc = "done" /\ ~params.check_mode
    /\ params.state = "present" /\ ~params.force /\ params.content = S("y")
    /\ old_item = DataRec("1", "c", "x")
    /\ Differs
    /\ results.msg = "Config already exists. Update skipped."

\* the state function of a config, secret or network has found a change
ChangeDetected ==
    /\ old_item # EmptyDict
    /\ module = "secret" \/ needs_update(old_item, _get_data(module, params, old_item, ids), {}) # EmptyDict

\* C9 as stated: for config, secret and network, a state=present invocation
\* that is no dry run, with force, on a resource that exists and in which a
\* change is detected, issues one DELETE of the existing id and then one POST
\* to the create endpoint, and reports changed=true; at no time has it issued
\* a POST without the DELETE before it.
C9_ForceRecreate ==
    (module \in DockerKinds /\ run > 0 /\ params.state = "present" /\ params.force
        /\ ~params.check_mode /\ ChangeDetected) =>
        /\ \A i \in 1..Len(Writes) : Writes[i].op = "create" =>
              i = 2 /\ Writes[1].op = "delete" /\ Writes[1].ok
        /\ pc = "done" =>
              /\ results.changed
              /\ Len(Writes) = 2
              /\ Writes[1].method = "DELETE"
              /\ Writes[1].path = endpoint(module, params) \o old_item[id_field(module)]
              /\ Writes[2].method = "POST"
              /\ Writes[2].path = endpoint(module, params) \o <<"create">>
        /\ ~FailedByItself

\* C10: a stack update is issued as POST /stacks/{id}/git when the stack is
\* swarm+repository, and as PUT /stacks/{id} for every other type and source.
C10_StackUpdateEndpoint ==
    \A i \in 1..Len(log) :
        (module = "stack" /\ log[i].op = "update") =>
            IF params.stack_type = S("swarm") /\ params.stack_source = S("repository")
            THEN log[i].method = "POST" /\ log[i].path = <<"stacks", old_item.id[1], "git">>
            ELSE log[i].method = "PUT" /\ log[i].path = <<"stacks", old_item.id[1]>>

\* a swarm+repository stack updated to another reference
C10_Witness ==
    /\ module = "stack" /\ pc = "done"
    /\ params.stack_type = S("swarm") /\ params.stack_source = S("repository")
    /\ \E i \in 1..Len(log) :
          /\ log[i].op = "update" /\ log[i].ok
          /\ log[i].method = "POST" /\ log[i].path = <<"stacks", "1", "git">>

\* a stack invocation that is no dry run, with the given target state, on a
\* stack the lookup has found
OnStack(state) ==
    /\ module = "stack" /\ run > 0 /\ pc \in {"act", "done", "failed"}
    /\ params.state = state /\ ~params.check_mode
    /\ Truthy(old_item.id)

\* C11 as stated: state=redeployed on a stack that exists ends successfully
\* with changed=true (unless a call of its own fails), having issued PUT
\* /stacks/{id}/git/redeploy for a swarm+repository stack and, for every other
\* type and source, standalone+repository included, the PUT /stacks/{id} of an
\* update.
C11_RedeployOrUpdate ==
    OnStack("redeployed") =>
        /\ ~FailedByItself
        /\ pc = "done" =>
              /\ results.changed
              /\ Len(Writes) = 1
              /\ Writes[1].method = "PUT"
              /\ Writes[1].path =
                    IF params.stack_type = S("swarm") /\ params.stack_source = S("repository")
                    THEN <<"stacks", old_item.id[1], "git", "redeploy">>
                    ELSE <<"stacks", old_item.id[1]>>

\* the lookup of the resource has returned and found no record: none of the
\* name within its scope, or an empty reply to the GET of the id
FoundNothing ==
    /\ run > 0 /\ pc \in {"act", "done", "failed"}
    /\ old_item = NoItem(module)
    /\ \/ /\ ~Truthy(params[id_param(module)])
          /\ Len(lookups) > 0
          /\ lookups[Len(lookups)].kind = module
          /\ lookups[Len(lookups)].scoped = <<>>
       \/ /\ Truthy(params[id_param(module)])
          /\ \E i \in 1..Len(log) : log[i].op = "get" /\ log[i].ok

\* C12: state=redeployed on a stack the lookup does not find fails with
\* "Cannot redeploy an inexistent stack." and issues no create, update or
\* redeploy call.
C12_RedeployNeverCreates ==
    (module = "stack" /\ FoundNothing /\ params.state = "redeployed") =>
        /\ pc = "failed"
        /\ results.class = "fail_json"
        /\ results.msg = "Cannot redeploy an inexistent stack."
        /\ Writes = <<>>

\* a redeploy by name, no dry run, of a swarm+repository stack the backend
\* does not hold
C12_Witness ==
    /\ module = "stack" /\ FoundNothing /\ params.state = "redeployed"
    /\ ~params.check_mode
    /\ params.stack_type = S("swarm") /\ params.stack_source = S("repository")
    /\ params.name = S("s")
    /\ remote["stack"] = <<>>
    /\ results.msg = "Cannot redeploy an inexistent stack."

\* the status a lifecycle state asks for, and the transition that leads to it
TargetStatus == IF params.state = "started" THEN RUNNING ELSE STOPPED

Transition == IF params.state = "started" THEN "start" ELSE "stop"

Polls == SelectSeq(log, LAMBDA c : c.op = "poll")

\* C14: state=healthy, no dry run, on an environment that exists: every poll
\* that reads heartbeat=false is followed by one sleep of the fixed interval,
\* so while the loop runs it has slept once per poll; when poll k reads
\* heartbeat=true the run has slept k-1 intervals, that poll is its last call
\* and it exits with changed=false and a message ending "is healthy".
C14_HealthWait ==
    (module = "environment" /\ run > 0 /\ params.state = "healthy" /\ ~params.check_mode
        /\ old_item # EmptyDict) =>
        /\ pc = "act" => elapsed = SleepInterval * Len(Polls)
        /\ pc = "done" =>
              /\ Len(Polls) >= 1
              /\ elapsed = SleepInterval * (Len(Polls) - 1)
              /\ log[Len(log)].op = "poll"
              /\ ~results.changed
              /\ results.msg = "is healthy"

\* heartbeat false on the first two polls and true on the third: two sleeps
C14_Witness ==
    /\ module = "environment" /\ run > 0 /\ params.state = "healthy" /\ ~params.check_mode
    /\ pc = "done"
    /\ Len(Polls) = 3
    /\ elapsed = 2 * SleepInterval
    /\ ~results.changed /\ results.msg = "is healthy"

\* wait_for_heartbeat is about to poll
Polling == pc = "act" /\ Head(plan) = "poll"

TimedOut == pc = "failed" /\ results.msg = "failed to achieve a healthy status"

\* C15: the poll loop of state=healthy always ends, with the heartbeat seen or
\* with the fatal failure; it polls only while the time since loop entry has
\* not exceeded the timeout, fails as soon as it has, and has polled at least
\* once when it ends.
C15_HealthWaitTerminates ==
    /\ [](Polling => elapsed <= params.timeout)
    /\ [](TimedOut => /\ elapsed > params.timeout
                      /\ elapsed - SleepInterval <= params.timeout
                      /\ Len(Polls) >= 1)
    /\ []((module = "environment" /\ pc = "done" /\ params.state = "healthy"
              /\ ~params.check_mode) => Len(Polls) >= 1)
    /\ (Polling ~> (pc \in {"done", "failed"}))

\* the heartbeat is never seen within a timeout of two intervals: three polls,
\* then the fatal failure
C15_Witness ==
    /\ TimedOut
    /\ params.timeout = 10
    /\ Len(Polls) = 3
    /\ elapsed = 3 * SleepInterval

\* C16 as stated: every invocation issues the GET of the status endpoint, and
\* that GET has answered 200 before any other endpoint is called; when it
\* answers otherwise the run fails and calls no other endpoint.
C16_PingFirst ==
    run > 0 =>
        /\ log # <<>> => log[1].op = "ping"
        /\ pc \in {"act", "done", "failed"} => log # <<>>
        /\ \A i \in 1..Len(log) : i > 1 => log[1].ok /\ log[i].op # "ping"
        /\ (log # <<>> /\ ~log[1].ok) => pc = "failed" /\ results.class = "ping"

\* the invalid combinations of stack inputs: a file source without a file,
\* repository authentication without both credentials, a new repository stack
\* without its URL, and a state other than present with no way to identify
\* the stack
InvalidCombination ==
    /\ module = "stack"
    /\ run > 0
    /\ \/ /\ params.state = "present"
          /\ params.stack_source = S("file")
          /\ params.file = None
       \/ /\ params.state = "present"
          /\ params.stack_source = S("repository")
          /\ Truthy(params.repository_authentication)
          /\ (params.repository_username = None \/ params.repository_password = None)
       \/ /\ params.state = "present"
          /\ params.stack_source = S("repository")
          /\ params.repository_url = None
          /\ start.remote["stack"] = <<>>
       \/ /\ params.state # "present"
          /\ params.stack_id = None
          /\ (params.name = None \/ params.endpoint_id = None)
          /\ (params.name = None \/ params.swarm_id = None)

\* C17 as stated: a stack run with an invalid combination of inputs fails
\* fatally, and no transport call has been issued when it does.
C17_ValidationBeforeTraffic ==
    (InvalidCombination /\ pc \notin {"idle", "checks"}) =>
        /\ pc = "failed"
        /\ results.failed
        /\ log = <<>>

\* the creation inputs of a new stack are all supplied
CreationInputsSupplied ==
    /\ params.endpoint_id # None
    /\ params.stack_type = S("swarm") => params.swarm_id # None
    /\ params.stack_source = S("repository") =>
           None \notin {params.repository_url, params.compose_file, params.refs_name,
                        params.repository_authentication}

\* C18 as stated: a stack run with state=present issues a create call only
\* when the creation inputs are all supplied; when one is missing and no
\* existing stack is found, the run fails and creates nothing.
C18_CreateNeedsInputs ==
    (module = "stack" /\ run > 0 /\ params.state = "present") =>
        /\ (\E i \in 1..Len(log) : log[i].op = "create") => CreationInputsSupplied
        /\ (~CreationInputsSupplied /\ FoundNothing /\ pc \in {"done", "failed"}) =>
               pc = "failed"

StackChangeSet ==
    LET p == Eff(module, params, old_item)
    IN  needs_update(to_dict(old_item), get_update_data(p, old_item),
                     skip_fields_from_changes(p))

\* a state=present run of the stack module that has found the stack
PresentOnStack ==
    /\ module = "stack"
    /\ run > 0
    /\ pc \in {"act", "done", "failed"}
    /\ params.state = "present"
    /\ Truthy(old_item.id)

PasswordForced == params.stack_source = S("repository") /\ params.update_password

\* C20: a state=present run on a repository stack that exists, with
\* update_password, reports changed=true and, unless it is a dry run, issues
\* the update call as its only write, whatever the change-set; without
\* update_password the changed flag says whether the change-set is non-empty.
C20_UpdatePasswordForcesChange ==
    PresentOnStack =>
        /\ pc = "done" => results.changed = (PasswordForced \/ StackChangeSet # EmptyDict)
        /\ (PasswordForced /\ ~params.check_mode) =>
               /\ pc = "act" => plan = <<"update">> /\ Writes = <<>>
               /\ pc \in {"done", "failed"} => Len(Writes) = 1 /\ Writes[1].op = "update"
        /\ (PasswordForced /\ params.check_mode) => pc = "done" /\ Writes = <<>>

\* the update is sent although nothing differs
C20_Witness ==
    /\ PresentOnStack
    /\ PasswordForced
    /\ ~params.check_mode
    /\ StackChangeSet = EmptyDict
    /\ pc = "done"
    /\ results.changed
    /\ Writes[1].op = "update"

\* a run of the stack module for a repository stack, the lookup done
OnRepositoryStack ==
    /\ module = "stack"
    /\ run > 0
    /\ pc \in {"act", "done", "failed"}
    /\ params.stack_source = S("repository")

\* the fields in which the update data differs from the stack found, the
\* skipped fields included
RawChangeSet ==
    needs_update(to_dict(old_item), get_update_data(Eff(module, params, old_item), old_item), {})

\* C21: for a repository stack the change-set never holds RepositoryPassword
\* and a password that differs, alone, leaves changed=false; every create,
\* update and redeploy payload sent carries the password the operator
\* supplied.
C21_WriteOnlyPassword ==
    OnRepositoryStack =>
        /\ "RepositoryPassword" \notin DOMAIN StackChangeSet
        /\ (PresentOnStack /\ pc = "done" /\ ~params.update_password
                /\ DOMAIN RawChangeSet \subseteq {"RepositoryPassword"}) => ~results.changed
        /\ params.repository_password # None =>
               \A i \in 1..Len(log) :
                   log[i].op \in {"create", "update", "redeploy"} =>
                       /\ "RepositoryPassword" \in DOMAIN log[i].data
                       /\ log[i].data["RepositoryPassword"] = params.repository_password

\* the stack found differs from the desired one in the password only, and the
\* run reports no change
C21_Witness ==
    /\ OnRepositoryStack
    /\ PresentOnStack
    /\ pc = "done"
    /\ ~params.update_password
    /\ DOMAIN RawChangeSet = {"RepositoryPassword"}
    /\ ~results.changed

(***************************************************************************)
(* Specification SpecUtil: the operations of the CRUD layer and of the     *)
(* change detection that the modules call, each applied on its own to      *)
(* every input of a bounded set.                                           *)
(***************************************************************************)
\* the variables of a module's invocation, none being under way
NoManager ==
    /\ params = EmptyDict
    /\ pending = <<>>
    /\ ids = EmptyDict
    /\ item = EmptyDict
    /\ old_item = EmptyDict
    /\ plan = <<>>
    /\ lookups = <<>>
    /\ elapsed = 0
    /\ run = 0
    /\ start = EmptyDict
    /\ prev = EmptyDict

managervars == <<params, pending, ids, item, old_item, plan, lookups, elapsed, run, start,
                 prev>>

\* BaseCRUD.resolve_name_to_id up to its create call, given the list it
\* fetched: what it does next, and the id it returns when it returns
resolve_name_to_id(kind, all_items, name, create_flag, create) ==
    LET r == validate_single_item(kind, all_items, name, EmptyDict)
    IN  CASE r.fail # "none" ->
               [do |-> "fail", class |-> r.fail, id |-> None, duplicate_ids |-> r.duplicate_ids]
          [] r.item # EmptyDict ->
               [do |-> "return", class |-> "none", id |-> r.item[id_field(kind)],
                duplicate_ids |-> <<>>]
          [] create_flag = None ->
               [do |-> "return", class |-> "none", id |-> None, duplicate_ids |-> <<>>]
          [] create ->
               [do |-> "create", class |-> "none", id |-> None, duplicate_ids |-> <<>>]
          [] OTHER ->
               [do |-> "fail", class |-> "fail_json", id |-> None, duplicate_ids |-> <<>>]

\* the calls of resolve_name_to_id: with the flag of the group and environment
\* modules, set or not, and with no flag as portainer_environment_info calls it
ResolveInputs ==
    {q \in [fn : {"resolve_name_to_id"}, name : {S("a"), S("b"), S("g")},
             create_flag : {None, S("create_tags")}, create : BOOLEAN,
             returned : {<<>>}] :
        q.create_flag = None => ~q.create}

InitResolve ==
    /\ module \in {"tag", "group"}
    /\ remote \in Remotes(module)
    /\ nextId = 3
    /\ pc = "resolve"
    /\ results = EmptyDict
    /\ log = <<>>
    /\ pure \in ResolveInputs
    /\ NoManager

\* resolve_name_to_id: the lookup of the name, and what follows without a call
ResolveName ==
    /\ pure.fn = "resolve_name_to_id"
    /\ pc = "resolve"
    /\ LET r == resolve_name_to_id(module, list_items(module, params, remote), pure.name,
                                   pure.create_flag, pure.create)
       IN  /\ log' = Append(log, Call("list", "GET", endpoint(module, params), EmptyDict, TRUE))
           /\ CASE r.do = "fail" ->
                      /\ pc' = "failed"
                      /\ results' = Failure(r.class, "cannot resolve the name", r.duplicate_ids)
                      /\ pure' = pure
                [] r.do = "return" ->
                      /\ pc' = "done"
                      /\ pure' = [pure EXCEPT !.returned = r.id]
                      /\ results' = results
                [] OTHER ->
                      /\ pc' = "resolve_create"
                      /\ UNCHANGED <<pure, results>>
    /\ UNCHANGED <<module, remote, nextId>>
    /\ UNCHANGED managervars

\* resolve_name_to_id: create_item(name=name) and the id of what it returns
ResolveNameCreate ==
    /\ pure.fn = "resolve_name_to_id"
    /\ pc = "resolve_create"
    /\ LET data == (name_field(module) :> pure.name)
       IN  \E ok \in BOOLEAN :
            /\ log' = Append(log, Call("create", "POST", _get_create_endpoint(module, params),
                                      data, ok))
            /\ IF ok
               THEN /\ remote' = [remote EXCEPT ![module] =
                                     Append(@, CreatedRecord(module, data))]
                    /\ nextId' = nextId + 1
                    /\ pure' = [pure EXCEPT !.returned = CreatedRecord(module, data)[id_field(module)]]
                    /\ pc' = "done"
                    /\ results' = results
               ELSE /\ pc' = "failed"
                    /\ results' = Failure("api", "API request failed", <<>>)
                    /\ UNCHANGED <<remote, nextId, pure>>
    /\ UNCHANGED module
    /\ UNCHANGED managervars

\* nesting depth of using_endpoint and number of CRUD operations of a run
MaxDepth == 3
MaxOps == 2

ProxiedKinds == DockerKinds \cup {"swarm"}

CrudOps == {"list", "get", "create", "update", "delete"}

\* BaseDockerCRUD.endpoint, an environment id being selected
proxy_endpoint(kind, endpoint_id) ==
    <<"endpoints", endpoint_id[1], "docker",
      IF kind = "swarm" THEN "swarm" ELSE docker_endpoint(kind)>>

\* a CRUD operation of a Docker-proxied resource, called with a name or an id:
\* it returns without a call, raises before any call, or issues its call
docker_crud(kind, op, endpoint_id) ==
    CASE kind = "swarm" /\ op \in {"create", "update", "delete"} ->
            [do |-> "noop", method |-> "", path |-> <<>>]
      [] endpoint_id = None ->
            [do |-> "raise", method |-> "", path |-> <<>>]
      [] op = "list" ->
            [do |-> "call", method |-> "GET", path |-> proxy_endpoint(kind, endpoint_id)]
      [] op = "get" ->
            [do |-> "call", method |-> "GET",
             path |-> proxy_endpoint(kind, endpoint_id) \o <<"7">>]
      [] op = "create" ->
            [do |-> "call", method |-> "POST",
             path |-> proxy_endpoint(kind, endpoint_id) \o <<"create">>]
      [] op = "update" ->
            [do |-> "call", method |-> "PUT",
             path |-> proxy_endpoint(kind, endpoint_id) \o <<"7", "update">>]
      [] OTHER ->
            [do |-> "call", method |-> "DELETE",
             path |-> proxy_endpoint(kind, endpoint_id) \o <<"7">>]

\* a variant of the exit of using_endpoint without the finally clause
restore_unless_raised(old_endpoint_id, current, raised) ==
    IF raised THEN current ELSE old_endpoint_id

\* using_endpoint, on exit: the environment id selected from then on
restore(old_endpoint_id, current, raised) == old_endpoint_id

\* a CRUD object of a Docker-proxied kind: the id it has selected, the
\* old_endpoint_id of every scope that is open, and the exception under way;
\* entered, exited and ops record what was done
InitScope ==
    /\ module = "none"
    /\ remote = EmptyDict
    /\ nextId = 1
    /\ pc = "scope"
    /\ results = EmptyDict
    /\ log = <<>>
    /\ \E k \in ProxiedKinds, e \in {None, S("1")} :
          pure = [fn |-> "using_endpoint", kind |-> k, endpoint_id |-> e, frames |-> <<>>,
                  raised |-> "none", entered |-> <<>>, exited |-> <<>>, ops |-> <<>>]
    /\ NoManager

\* with crud.using_endpoint(e): the scope is entered
EnterScope ==
    /\ pure.fn = "using_endpoint"
    /\ pc = "scope"
    /\ pure.raised = "none"
    /\ Len(pure.frames) < MaxDepth
    /\ \E e \in {S("1"), S("2")} :
          pure' = [pure EXCEPT !.frames = Append(@, pure.endpoint_id),
                               !.endpoint_id = e,
                               !.entered = Append(@, [e |-> e, before |-> pure.endpoint_id])]
    /\ UNCHANGED runvars

\* the innermost scope is left, by the end of its block or by the exception
ExitScope ==
    /\ pure.fn = "using_endpoint"
    /\ pc = "scope"
    /\ pure.frames # <<>>
    /\ LET n == Len(pure.frames)
           now == restore(pure.frames[n], pure.endpoint_id, pure.raised # "none")
       IN  pure' = [pure EXCEPT !.frames = SubSeq(@, 1, n - 1),
                                !.endpoint_id = now,
                                !.entered = SubSeq(@, 1, n - 1),
                                !.exited = [e |-> pure.entered[n].e,
                                            before |-> pure.entered[n].before, after |-> now,
                                            raised |-> pure.raised # "none"]]
    /\ UNCHANGED runvars

\* one CRUD operation is called, in the innermost scope or outside every scope
CrudCall ==
    /\ pure.fn = "using_endpoint"
    /\ pc = "scope"
    /\ pure.raised = "none"
    /\ Len(pure.ops) < MaxOps
    /\ \E op \in CrudOps :
        LET r == docker_crud(pure.kind, op, pure.endpoint_id)
            rec(outcome) == [op |-> op, selected |-> pure.endpoint_id, outcome |-> outcome,
                             scope |-> IF pure.entered = <<>> THEN None
                                       ELSE pure.entered[Len(pure.entered)].e,
                             at |-> IF outcome = "call" THEN Len(log) + 1 ELSE 0]
        IN  CASE r.do = "noop" ->
                    /\ pure' = [pure EXCEPT !.ops = Append(@, rec("noop"))]
                    /\ log' = log
              [] r.do = "raise" ->
                    /\ pure' = [pure EXCEPT !.ops = Append(@, rec("ValueError")),
                                            !.raised = "exception"]
                    /\ log' = log
              [] OTHER ->
                    \E ok \in BOOLEAN :
                        /\ log' = Append(log, Call(op, r.method, r.path, EmptyDict, ok))
                        /\ pure' = [pure EXCEPT !.ops = Append(@, rec("call")),
                                                !.raised = IF ok THEN "none" ELSE "api"]
    /\ UNCHANGED <<module, remote, nextId, pc, results>>
    /\ UNCHANGED managervars

\* every scope is left: main() exits, with fail_json when an exception reached it
EndScopes ==
    /\ pure.fn = "using_endpoint"
    /\ pc = "scope"
    /\ pure.frames = <<>>
    /\ pure.ops # <<>>
    /\ IF pure.raised = "none"
       THEN pc' = "done" /\ results' = results
       ELSE pc' = "failed" /\ results' = Failure(pure.raised, "Error managing the resource", <<>>)
    /\ UNCHANGED <<module, remote, nextId, log, pure>>
    /\ UNCHANGED managervars

\* IdempotencyManager._sanitize_for_diff.  A dict argument is <<>> for None
\* and <<d>> for the dict d; the list of fields to skip is None or a list
_sanitize_for_diff(data, skip_fields) ==
    IF data = <<>> \/ data = <<EmptyDict>> THEN EmptyDict
    ELSE Restrict(data[1],
                  DOMAIN data[1] \ (IF skip_fields = None THEN {}
                                    ELSE Range(Tail(skip_fields))))

\* a variant of build_diff that overlays after_data on before_data itself
build_diff_in_place(before_data, after_data, skip_fields) ==
    LET _after_data == Merge(IF before_data = <<>> THEN EmptyDict ELSE before_data[1],
                             IF after_data = <<>> THEN EmptyDict ELSE after_data[1])
    IN  [before |-> _sanitize_for_diff(before_data, skip_fields),
         after |-> _sanitize_for_diff(<<_after_data>>, skip_fields),
         before_data |-> IF before_data \in {<<>>, <<EmptyDict>>} THEN before_data
                         ELSE <<_after_data>>,
         after_data |-> after_data]

\* IdempotencyManager.build_diff: the dict it returns, and its two arguments as
\* the call leaves them
build_diff(before_data, after_data, skip_fields) ==
    LET _after_data == Merge(IF before_data = <<>> THEN EmptyDict ELSE before_data[1],
                             IF after_data = <<>> THEN EmptyDict ELSE after_data[1])
    IN  [before |-> _sanitize_for_diff(before_data, skip_fields),
         after |-> _sanitize_for_diff(<<_after_data>>, skip_fields),
         before_data |-> before_data,
         after_data |-> after_data]

\* build_diff is called with every pair of None or a dict over three fields
\* and with None or a list of fields to skip
InitDiff ==
    /\ LET dicts == {<<>>} \cup
                    {<<d>> : d \in UNION {[K -> {S("a"), S("b")}] : K \in SUBSET NUKeys}}
           skips == {None} \cup
                    {L(f) : f \in {<<>>, <<"Name">>, <<"Description">>, <<"TagIDs", "Name">>,
                                   <<"Description", "Description">>,
                                   <<"Name", "Description", "TagIDs">>, <<"Other">>}}
       IN  \E b \in dicts, a \in dicts, sk \in skips :
            pure = [fn |-> "build_diff", given |-> [before_data |-> b, after_data |-> a],
                    before_data |-> b, after_data |-> a, skip_fields |-> sk,
                    applied |-> FALSE, result |-> EmptyDict]
    /\ NoInvocation

ApplyBuildDiff ==
    /\ pure.fn = "build_diff"
    /\ ~pure.applied
    /\ LET r == build_diff(pure.before_data, pure.after_data, pure.skip_fields)
       IN  pure' = [pure EXCEPT !.applied = TRUE,
                                !.result = [before |-> r.before, after |-> r.after],
                                !.before_data = r.before_data,
                                !.after_data = r.after_data]
    /\ UNCHANGED runvars

InitUtil == InitResolve \/ InitScope \/ InitDiff

NextUtil ==
    \/ ResolveName
    \/ ResolveNameCreate
    \/ EnterScope
    \/ ExitScope
    \/ CrudCall
    \/ EndScopes
    \/ ApplyBuildDiff

SpecUtil == InitUtil /\ [][NextUtil]_vars

\* the create calls issued
Creates == SelectSeq(log, LAMBDA c : c.op = "create")

\* C22 as stated: resolve_name_to_id returns the id of the one record that has
\* the name and creates nothing; when none has it and the flag is set, it
\* issues one create whose payload is the name alone and returns the new id;
\* when none has it and the flag is not set or not given, it fails and returns
\* no id.
C22_ResolveNameToId ==
    (pure.fn = "resolve_name_to_id" /\ pc \in {"done", "failed"}) =>
        LET had == SelectSeq(remote[module], LAMBDA r : r[name_field(module)] = pure.name
                                 /\ ~(Creates # <<>> /\ Creates[1].ok
                                         /\ r[id_field(module)] = S(IdStr(nextId - 1))))
        IN  /\ Len(had) = 1 =>
                  /\ pc = "done"
                  /\ pure.returned = had[1][id_field(module)]
                  /\ Creates = <<>>
            /\ (Len(had) = 0 /\ pure.create) =>
                  /\ Len(Creates) = 1
                  /\ Creates[1].data = (name_field(module) :> pure.name)
                  /\ pc = "done" => pure.returned = S(IdStr(nextId - 1))
            /\ (Len(had) = 0 /\ ~pure.create) =>
                  /\ pc = "failed"
                  /\ pure.returned = <<>>
                  /\ Creates = <<>>

\* the operations that issued a call while a scope was open
CallsInScope ==
    SelectSeq(pure.ops, LAMBDA o : o.outcome = "call" /\ o.scope # None)

\* C23: when a using_endpoint scope has been left, by the end of its block or
\* by an exception, the selected environment id is the one that was selected
\* before the scope was entered; the scopes that are still open will restore
\* what was selected before each of them; and a call issued inside a scope goes
\* to the proxy of the scope's environment.
C23_ScopedOverride ==
    pure.fn = "using_endpoint" =>
        /\ pure.exited # <<>> => pure.exited.after = pure.exited.before
        /\ \A i \in 1..Len(pure.frames) :
              /\ pure.frames[i] = pure.entered[i].before
              /\ i < Len(pure.frames) => pure.entered[i + 1].before = pure.entered[i].e
        /\ pure.frames # <<>> => pure.endpoint_id = pure.entered[Len(pure.entered)].e
        /\ \A i \in 1..Len(CallsInScope) :
              SubSeq(log[CallsInScope[i].at].path, 1, 3)
                  = <<"endpoints", CallsInScope[i].scope[1], "docker">>

\* an inner scope for another environment was left by an exception while an
\* outer scope is still open, after a call was issued inside
C23_Witness ==
    /\ pure.fn = "using_endpoint"
    /\ pure.exited # <<>>
    /\ pure.exited.raised
    /\ pure.exited.e # pure.exited.before
    /\ pure.exited.after = pure.exited.before
    /\ pure.frames # <<>>
    /\ CallsInScope # <<>>

\* C24 as stated: an operation of a Docker-proxied resource that is called
\* while no environment id is selected raises the configuration error and
\* issues no transport call, and the run it belongs to ends in failure.
C24_NoEndpointIsFatal ==
    pure.fn = "using_endpoint" =>
        \A i \in 1..Len(pure.ops) :
            pure.ops[i].selected = None =>
                /\ pure.ops[i].outcome = "ValueError"
                /\ pure.raised = "exception"
                /\ pc # "done"

\* the id of the record the run found or created, None when there is none
ManagedId ==
    LET of(it) == IF module = "stack" THEN it.id ELSE Get(it, id_field(module))
    IN  IF Truthy(of(item)) THEN of(item) ELSE of(old_item)

\* the record of that id as the backend holds and returns it, if it holds one
Addressed ==
    LET recs == SelectSeq(remote[module], LAMBDA r : r[id_field(module)] = ManagedId)
    IN  [i \in 1..Len(recs) |-> _process_response(module, Render(module, recs[i]))]

\* a record in the form the module reports it
Reported(rec) ==
    IF module = "stack" THEN to_dict(update_from_dict(Stack, rec)) ELSE rec

\* C25 as stated: a run that ends successfully reports the record as the
\* backend holds it at the end of the run when there is one, and otherwise the
\* payload synthesized from the parameters.
C25_FinalRepresentation ==
    (run > 0 /\ pc = "done") =>
        IF Addressed # <<>>
        THEN \E i \in 1..Len(Addressed) : results.resource = Reported(Addressed[i])
        ELSE results.resource
                = Resource(module, Eff(module, params, NoItem(module)), NoItem(module),
                           NoItem(module), ids)

\* C26: build_diff returns 'before' as before_data without the skipped fields
\* and 'after' as before_data overlaid with after_data without the skipped
\* fields, None counting as the empty dict and as the empty list; no skipped
\* field occurs in either, and the two arguments are as they were.
C26_BuildDiff ==
    (pure.fn = "build_diff" /\ pure.applied) =>
        LET b == IF pure.given.before_data = <<>> THEN EmptyDict
                 ELSE pure.given.before_data[1]
            a == IF pure.given.after_data = <<>> THEN EmptyDict
                 ELSE pure.given.after_data[1]
            sk == IF pure.skip_fields = None THEN {}
                  ELSE {pure.skip_fields[i] : i \in 2..Len(pure.skip_fields)}
        IN  /\ pure.result.before = [k \in DOMAIN b \ sk |-> b[k]]
            /\ pure.result.after =
                   [k \in (DOMAIN b \cup DOMAIN a) \ sk |->
                        IF k \in DOMAIN a THEN a[k] ELSE b[k]]
            /\ (DOMAIN pure.result.before \cup DOMAIN pure.result.after) \cap sk = {}
            /\ pure.before_data = pure.given.before_data
            /\ pure.after_data = pure.given.after_data
            /\ (pure.given.before_data = <<>> /\ pure.given.after_data = <<>>) =>
                   pure.result = [before |-> EmptyDict, after |-> EmptyDict]

\* a field that both hold and that is skipped, one that after_data overrides
\* and one that only after_data holds
C26_Witness ==
    /\ pure.fn = "build_diff"
    /\ pure.applied
    /\ pure.given.before_data = <<[Name |-> S("a"), Description |-> S("a")]>>
    /\ pure.given.after_data = <<[Name |-> S("b"), Description |-> S("b"), TagIDs |-> S("a")]>>
    /\ pure.skip_fields = L(<<"Description">>)
    /\ pure.result = [before |-> [Name |-> S("a")],
                      after |-> [Name |-> S("b"), TagIDs |-> S("a")]]

(***************************************************************************)
(* Convergence of state=present                                            *)
(***************************************************************************)
\* the change-set the kind's needs_update computes from the parameters of the
\* invocation against a record as the backend now returns it
RecomputedChanges(rec) ==
    IF module = "stack"
    THEN LET old_stack == update_from_dict(Stack, rec)
             p == Eff(module, params, old_stack)
         IN  needs_update(to_dict(old_stack), get_update_data(p, old_stack),
                          skip_fields_from_changes(p))
    ELSE IF module = "group" THEN group_needs_update(params, rec, ids)
    ELSE IF module = "environment" THEN environment_needs_update(params, rec, ids)
    ELSE needs_update(rec, _get_data(module, params, rec, ids), {})

\* a state=present run that is no dry run has ended successfully, on a kind
\* that updates in place or on a kind that recreates, with force
PresentConverged ==
    /\ run > 0
    /\ pc = "done"
    /\ params.state = "present"
    /\ ~params.check_mode
    /\ module \in {"group", "environment", "stack"}
           \/ (module \in DockerKinds /\ params.force)

\* C27 as stated: after a successful state=present run that is no dry run, on
\* group, environment or stack, or on network, config or secret with force,
\* the change-set recomputed against the record the backend now holds is empty.
C27_PresentConverges ==
    PresentConverged =>
        \A i \in 1..Len(Addressed) : RecomputedChanges(Addressed[i]) = EmptyDict

(***************************************************************************)
(* File-sourced stacks                                                     *)
(***************************************************************************)
\* a state=present run of a file-sourced stack, no dry run, that repeats a
\* successful run with the same compose file, env, prune and pull_images and
\* has found the stack that run left on the backend
FileStackAsHeld ==
    /\ Repeating
    /\ PresentOnStack
    /\ params.stack_source = S("file")
    /\ ~params.check_mode

\* C28 as stated: state=present on a file-sourced stack that exists remotely,
\* with a compose file, env, prune and pull_images equal to what the stack
\* holds, computes an empty change-set, reports changed=false with "Stack
\* already exists with correct configuration." and issues no update call.
C28_FileStackNoOp ==
    FileStackAsHeld =>
        /\ StackChangeSet = EmptyDict
        /\ pc = "done" =>
               /\ ~results.changed
               /\ results.msg = "Stack already exists with correct configuration."
        /\ \A i \in 1..Len(Writes) : Writes[i].op # "update"

(***************************************************************************)
(* Scope of a stack's name                                                 *)
(***************************************************************************)
\* the stack module has looked its stack up by name with an endpoint_id given
StackLookedUpOnEndpoint ==
    /\ run > 0
    /\ module = "stack"
    /\ lookups # <<>>
    /\ Truthy(params.endpoint_id)

\* the stacks of the queried name the backend held, in remote order
SameNamed == SelectSeq(start.remote["stack"], LAMBDA r : NameOf(r) = params.name)

\* those of them on the endpoint the lookup was given
OnEndpoint == SelectSeq(SameNamed, LAMBDA r : Get(r, "EndpointId") = params.endpoint_id)

\* those of them the lookup's swarm filter lets through
InSwarm ==
    SelectSeq(OnEndpoint, LAMBDA r : Truthy(params.swarm_id) => Get(r, "SwarmId") = params.swarm_id)

\* C29 as stated: when a stack is looked up by name with an endpoint_id, only
\* the records of that endpoint count: two or more of the name on it give the
\* ambiguous-name failure with their ids, one is the stack selected, and with
\* none no stack is selected and the failure does not occur, whatever stacks of
\* the name other endpoints hold.
C29_StackNameScope_AsStated ==
    StackLookedUpOnEndpoint =>
        /\ Len(OnEndpoint) >= 2 =>
               /\ pc = "failed"
               /\ results.class = "ambiguous"
               /\ results.duplicate_ids = [i \in 1..Len(OnEndpoint) |-> OnEndpoint[i]["Id"]]
        /\ Len(OnEndpoint) < 2 =>
               /\ pc = "failed" => results.class # "ambiguous"
               /\ old_item.id = IF Len(OnEndpoint) = 1 THEN OnEndpoint[1]["Id"] ELSE None

\* C29: when a stack is looked up by name with an endpoint_id, only the
\* records of that endpoint which the swarm filter of the lookup lets through
\* count: two or more of them give the ambiguous-name failure with their ids,
\* one is the stack selected, and with none no stack is selected and the
\* failure does not occur, whatever stacks of the name other endpoints hold.
C29_StackNameScope ==
    StackLookedUpOnEndpoint =>
        /\ Len(InSwarm) >= 2 =>
               /\ pc = "failed"
               /\ results.class = "ambiguous"
               /\ results.duplicate_ids = [i \in 1..Len(InSwarm) |-> InSwarm[i]["Id"]]
        /\ Len(InSwarm) < 2 =>
               /\ pc = "failed" => results.class # "ambiguous"
               /\ old_item.id = IF Len(InSwarm) = 1 THEN InSwarm[1]["Id"] ELSE None

\* a lookup on endpoint 1, which holds one stack of the name while endpoint 2
\* holds another, has selected the stack of endpoint 1 and ended successfully
C29_Witness ==
    /\ StackLookedUpOnEndpoint
    /\ Len(SameNamed) = 2
    /\ Len(InSwarm) = 1
    /\ InSwarm[1]["EndpointId"] = params.endpoint_id
    /\ pc = "done"
    /\ old_item.id = InSwarm[1]["Id"]

(***************************************************************************)
(* What changed=true stands for                                            *)
(***************************************************************************)
\* the POST, PUT and DELETE calls of the invocation to the endpoints of the
\* resource the module manages
ManagedWrites ==
    LET base == endpoint(module, params)
    IN  SelectSeq(Writes, LAMBDA c :
            Len(c.path) >= Len(base) /\ SubSeq(c.path, 1, Len(base)) = base)

\* C30 as stated: an invocation that is no dry run and ends successfully with
\* changed=true has issued at least one POST, PUT or DELETE to a create,
\* update, delete, start, stop or redeploy endpoint of the managed resource.
C30_ChangedImpliesWrite ==
    (run > 0 /\ pc = "done" /\ ~params.check_mode /\ results.changed) =>
        ManagedWrites # <<>>

(***************************************************************************)
(* What changed=false stands for                                           *)
(***************************************************************************)
\* C31 as stated: an invocation that ends successfully with changed=false has
\* issued no POST, PUT or DELETE, the creation of group and tag names it
\* resolved included, for every target state.
C31_UnchangedImpliesNoWrite ==
    (run > 0 /\ pc = "done" /\ ~results.changed) => Writes = <<>>

(***************************************************************************)
(* Creation under a name the backend already holds                         *)
(***************************************************************************)
\* the kind of resource a create call is addressed to
CreatedKind(c) ==
    CASE c.path[1] = "tags" -> "tag"
      [] c.path[1] = "endpoint_groups" -> "group"
      [] c.path[1] = "stacks" -> "stack"
      [] c.path[1] = "endpoints" /\ Len(c.path) = 1 -> "environment"
      [] OTHER -> module

\* the records of the backend a new record of that kind and name would
\* duplicate: those of the name, for a stack those of the swarm and endpoint
\* the invocation is given
Homonyms(c) ==
    LET kind == CreatedKind(c)
    IN  SelectSeq(remote[kind], LAMBDA r :
            /\ NameOf(r) = c.data[name_field(kind)]
            /\ kind = "stack" =>
                  /\ Truthy(params.swarm_id) => Get(r, "SwarmId") = params.swarm_id
                  /\ Truthy(params.endpoint_id) => Get(r, "EndpointId") = params.endpoint_id)

\* C32 as stated: an invocation never issues a create call for a name of which
\* the backend, in the scope of the lookup, already holds a record, also when
\* the resource is addressed by id together with a name and the read by id
\* returns no record.
C32_NoDuplicateNameCreation ==
    [][(Len(log') = Len(log) + 1 /\ log'[Len(log')].op = "create")
           => Homonyms(log'[Len(log')]) = <<>>]_vars

(***************************************************************************)
(* Specification SpecPair: two invocations of one module against one       *)
(* backend, their transport calls interleaved.  An invocation reads once,  *)
(* decides, and then issues the calls it decided on.                       *)
(***************************************************************************)
PairProcs == {1, 2}

\* the number of times each of the two operators invokes the module
MaxPairRuns == 2

PairInputs(kind) ==
    IF kind = "tag"
    THEN {p \in TagInputs : p.name = S("a") /\ p.tag_id = None /\ p.state = "present"
                            /\ ~p.check_mode}
    ELSE {[p EXCEPT !.description = v] :
             p \in {q \in GroupInputs : q.group_id = None /\ q.description # None
                                        /\ q.tags = None /\ q.tag_ids = None
                                        /\ ~q.create_tags /\ q.state = "present"
                                        /\ ~q.check_mode},
             v \in {S("d"), S("e")}}

PairRemotes(kind) ==
    IF kind = "tag"
    THEN {NoRemote, [NoRemote EXCEPT !["tag"] = <<TagRec("1", "a")>>]}
    ELSE {NoRemote, [NoRemote EXCEPT !["group"] = <<GroupRec("1", "g", S(""), <<>>)>>]}

\* an invocation that has not started
NotInvoked(p) ==
    [pc |-> "idle", run |-> 0, params |-> p, item |-> EmptyDict, old_item |-> EmptyDict,
     plan |-> <<>>, results |-> EmptyDict]

InitPair ==
    /\ module \in {"tag", "group"}
    /\ remote \in PairRemotes(module)
    /\ nextId = 3
    /\ pc = "pair"
    /\ results = EmptyDict
    /\ log = <<>>
    /\ \E p1 \in PairInputs(module), p2 \in PairInputs(module) :
          pure = [fn |-> "interleaved",
                  inv |-> [i \in PairProcs |-> NotInvoked(IF i = 1 THEN p1 ELSE p2)],
                  trace |-> <<>>]
    /\ NoManager

\* a transport call of the trace: who issued it, in which of its runs, and,
\* for a lookup, the records of the name the backend held when it answered
Traced(i, r, c, held) == [by |-> i, run |-> r, call |-> c, held |-> held]

\* main() of a module from its start to the first write of its state function:
\* the ping, the lookup by name and the decision
Invoke(i) ==
    /\ pure.fn = "interleaved"
    /\ LET me == pure.inv[i]
           p == me.params
           held == SelectSeq(remote[module], LAMBDA r : NameOf(r) = p.name)
       IN  /\ me.pc = "idle" \/ (me.pc \in {"done", "failed"} /\ me.run < MaxPairRuns)
           /\ \E ok \in BOOLEAN, r \in LookupOutcomes(module, p, remote) :
                LET d == StateFunction(module, p, r.item, r.item, EmptyIds)
                    ping == Call("ping", "GET", <<"system", "status">>, EmptyDict, ok)
                    calls == IF ok THEN <<ping>> \o r.calls ELSE <<ping>>
                    after ==
                       CASE ~ok ->
                              [me EXCEPT !.pc = "failed", !.plan = <<>>,
                                         !.results = Failure("ping", "ping failed", <<>>)]
                         [] r.fail = "ambiguous" ->
                              [me EXCEPT !.pc = "failed", !.plan = <<>>,
                                         !.results = Failure("ambiguous", "Multiple items found",
                                                             r.duplicate_ids)]
                         [] r.fail # "none" ->
                              [me EXCEPT !.pc = "failed", !.plan = <<>>,
                                         !.results = Failure(r.fail, "failed", <<>>)]
                         [] d.plan = <<>> ->
                              [me EXCEPT !.pc = "done", !.plan = <<>>, !.item = r.item,
                                         !.old_item = r.item,
                                         !.results = Success(d, Resource(module, p, r.item,
                                                                         r.item, EmptyIds))]
                         [] OTHER ->
                              [me EXCEPT !.pc = "act", !.plan = d.plan, !.item = r.item,
                                         !.old_item = r.item, !.results = EmptyDict]
                IN  pure' = [pure EXCEPT
                               !.inv[i] = [after EXCEPT !.run = me.run + 1],
                               !.trace = @ \o [k \in 1..Len(calls) |->
                                                 Traced(i, me.run + 1, calls[k], held)]]
    /\ UNCHANGED <<module, remote, nextId, pc, results, log>>
    /\ UNCHANGED managervars

\* the state function after one of its calls: its next call, or main() exits
Proceeded(me, it) ==
    IF Tail(me.plan) = <<>>
    THEN [me EXCEPT !.pc = "done", !.plan = <<>>, !.item = it,
                    !.results = Success(StateFunction(module, me.params, me.old_item,
                                                      me.old_item, EmptyIds),
                                        Resource(module, me.params, it, me.old_item, EmptyIds))]
    ELSE [me EXCEPT !.plan = Tail(me.plan), !.item = it]

\* main() after a call of the state function that failed
Refused(me) ==
    [me EXCEPT !.pc = "failed", !.plan = <<>>,
               !.results = Failure("api", "API request failed", <<>>)]

\* create_<kind> of an invocation, from what the invocation read
PairCreate(i) ==
    /\ pure.fn = "interleaved"
    /\ LET me == pure.inv[i]
           data == CreatePayload(module, me.params, me.old_item, EmptyIds)
           stored == StoredOnCreate(module, data, me.params)
       IN  /\ me.pc = "act" /\ Head(me.plan) = "create"
           /\ \E ok \in BOOLEAN :
                /\ pure' = [pure EXCEPT
                              !.inv[i] = IF ok
                                         THEN Proceeded(me, _process_response(module,
                                                                Render(module, stored)))
                                         ELSE Refused(me),
                              !.trace = Append(@, Traced(i, me.run,
                                            Call("create", "POST",
                                                 _get_create_endpoint(module, me.params),
                                                 data, ok), <<>>))]
                /\ remote' = IF ok THEN [remote EXCEPT ![module] = Append(@, stored)]
                             ELSE remote
                /\ nextId' = IF ok THEN nextId + 1 ELSE nextId
    /\ UNCHANGED <<module, pc, results, log>>
    /\ UNCHANGED managervars

\* update_<kind> of an invocation, from what the invocation read
PairUpdate(i) ==
    /\ pure.fn = "interleaved"
    /\ LET me == pure.inv[i]
           id == ItemId(module, me.item)
           at == IndexOf(module, id)
           data == UpdatePayload(module, me.params, me.old_item, EmptyIds)
       IN  /\ me.pc = "act" /\ Head(me.plan) = "update"
           /\ \E ok \in BOOLEAN :
                /\ ok => at # 0
                /\ pure' = [pure EXCEPT
                              !.inv[i] = IF ok
                                         THEN Proceeded(me, _process_response(module,
                                                  Render(module,
                                                      StoredOnUpdate(module, remote[module][at],
                                                                     data))))
                                         ELSE Refused(me),
                              !.trace = Append(@, Traced(i, me.run,
                                            Call("update", _update_method(module, me.params),
                                                 _get_update_endpoint(module, me.params, id),
                                                 data, ok), <<>>))]
                /\ remote' = IF ok
                             THEN [remote EXCEPT ![module] =
                                      ReplaceAt(@, at, StoredOnUpdate(module, @[at], data))]
                             ELSE remote
    /\ UNCHANGED <<module, nextId, pc, results, log>>
    /\ UNCHANGED managervars

NextPair ==
    \E i \in PairProcs :
        \/ Invoke(i)
        \/ PairCreate(i)
        \/ PairUpdate(i)

SpecPair == InitPair /\ [][NextPair]_vars

\* the position in the trace of the lookup of run r of invocation i, 0 if none
ListAt(i, r) ==
    LET hits == {k \in 1..Len(pure.trace) :
                    /\ pure.trace[k].by = i /\ pure.trace[k].run = r
                    /\ pure.trace[k].call.op = "list"}
    IN  IF hits = {} THEN 0 ELSE CHOOSE k \in hits : TRUE

\* the positions of the writes of run r of invocation i
WritesAt(i, r, op) ==
    {k \in 1..Len(pure.trace) :
        /\ pure.trace[k].by = i /\ pure.trace[k].run = r /\ pure.trace[k].call.op = op}

\* run r of invocation i has ended
Ended(i, r) ==
    pure.inv[i].run > r \/ (pure.inv[i].run = r /\ pure.inv[i].pc \in {"done", "failed"})

\* the record a lookup was answered with, as the manager holds it
ReadAt(k) == _process_response(module, Render(module, pure.trace[k].held[1]))

\* the records of a name the backend holds
HeldNow(name) == SelectSeq(remote[module], LAMBDA r : NameOf(r) = name)

\* the two invocations have both looked a name up that the backend did not
\* hold before either issued its create, and both creates succeeded
RacedCreates(r1, r2) ==
    /\ ListAt(1, r1) # 0 /\ ListAt(2, r2) # 0
    /\ pure.trace[ListAt(1, r1)].held = <<>> /\ pure.trace[ListAt(2, r2)].held = <<>>
    /\ \E c1 \in WritesAt(1, r1, "create"), c2 \in WritesAt(2, r2, "create") :
          pure.trace[c1].call.ok /\ pure.trace[c2].call.ok

\* C33: interleaved invocations are not detected.  An invocation that looked
\* its name up and found none issues its create when it goes on, whatever was
\* created in between; when two such creates succeed the backend holds two
\* records of the name; every lookup answered with two or more records of its
\* name fails with the ambiguous-name error; and an invocation that read a
\* record and decided to update it issues the update with the payload of its
\* own read, whatever was written in between.
C33_InterleavingUndetected ==
    pure.fn = "interleaved" =>
        \A i \in PairProcs, r \in 1..MaxPairRuns :
            LET l == ListAt(i, r)
                me == pure.inv[i]
            IN  l # 0 =>
                  /\ (pure.trace[l].held = <<>> /\ Ended(i, r)) =>
                        /\ WritesAt(i, r, "create") # {}
                        /\ \A c \in WritesAt(i, r, "create") : c > l
                  /\ \A s \in 1..MaxPairRuns :
                        (i = 1 /\ RacedCreates(r, s)) =>
                            /\ Len(HeldNow(me.params.name)) >= 2
                            /\ \A k \in 1..Len(pure.trace) :
                                  (pure.trace[k].call.op = "list"
                                     /\ \A c \in WritesAt(1, r, "create")
                                                   \cup WritesAt(2, s, "create") : k > c)
                                      => Len(pure.trace[k].held) >= 2
                  /\ (Len(pure.trace[l].held) >= 2 /\ me.run = r) =>
                        /\ me.pc = "failed"
                        /\ me.results.class = "ambiguous"
                        /\ me.results.duplicate_ids
                               = [k \in 1..Len(pure.trace[l].held) |->
                                     pure.trace[l].held[k][id_field(module)]]
                  /\ (module = "group" /\ Len(pure.trace[l].held) = 1 /\ Ended(i, r)
                        /\ group_needs_update(me.params, ReadAt(l), EmptyIds) # EmptyDict) =>
                        /\ WritesAt(i, r, "update") # {}
                        /\ \A u \in WritesAt(i, r, "update") :
                              pure.trace[u].call.data
                                  = UpdatePayload(module, me.params, ReadAt(l), EmptyIds)

\* both invocations found the tag absent and created it, the backend holds two
\* tags of the name, and the next invocation's lookup was refused as ambiguous
C33_Witness ==
    /\ pure.fn = "interleaved"
    /\ module = "tag"
    /\ RacedCreates(1, 1)
    /\ ListAt(2, 1) < CHOOSE c \in WritesAt(1, 1, "create") : TRUE
    /\ ListAt(1, 1) < CHOOSE c \in WritesAt(2, 1, "create") : TRUE
    /\ Len(HeldNow(S("a"))) = 2
    /\ pure.inv[1].run = 2
    /\ pure.inv[1].pc = "failed"
    /\ pure.inv[1].results.class = "ambiguous"

(***************************************************************************)
(* A forced recreation that fails half way                                 *)
(***************************************************************************)
\* a state=present run with force of config, secret or network, no dry run,
\* has issued the DELETE of the record it found
ForcedRecreateBegun ==
    /\ run > 0
    /\ module \in DockerKinds
    /\ params.state = "present"
    /\ params.force
    /\ ~params.check_mode
    /\ Writes # <<>>
    /\ Writes[1].op = "delete"

\* the backend as the run found it, without the record of an id
Without(id) == SelectSeq(start.remote[module], LAMBDA r : r[id_field(module)] # id)

\* C34: a forced recreation is not rolled back.  When the DELETE fails, the
\* run ends with the API failure, no create is issued and the backend is as
\* the run found it; when the DELETE succeeded and the create fails, the run
\* ends with the API failure, never with changed=true, and the backend has
\* lost the record and holds nothing in its place.
C34_RecreateNotRolledBack ==
    ForcedRecreateBegun =>
        /\ ~Writes[1].ok =>
              /\ pc = "failed"
              /\ results.class = "api"
              /\ failure_keys(results.class) = {"msg", "status", "body"}
              /\ Len(Writes) = 1
              /\ remote = start.remote
        /\ (Writes[1].ok /\ Len(Writes) >= 2 /\ ~Writes[2].ok) =>
              /\ Writes[2].op = "create"
              /\ Len(Writes) = 2
              /\ pc = "failed"
              /\ results.class = "api"
              /\ ~results.changed
              /\ remote[module] = Without(old_item[id_field(module)])
              /\ \A i \in 1..Len(remote[module]) :
                    remote[module][i][id_field(module)] # old_item[id_field(module)]

\* the DELETE of a forced recreation succeeded and its create failed: the
\* record the run found is gone
C34_Witness ==
    /\ ForcedRecreateBegun
    /\ Len(Writes) = 2
    /\ Writes[1].ok
    /\ Writes[2].op = "create" /\ ~Writes[2].ok
    /\ pc = "failed"
    /\ Len(remote[module]) < Len(start.remote[module])

(***************************************************************************)
(* Environment inputs the operator left unset                              *)
(***************************************************************************)
\* the fields of the environment record whose input the operator left unset
UnsetEnvironmentKeys ==
    {k \in {"EndpointCreationType", "URL", "TLS", "EdgeCheckinInterval",
            "EdgeTunnelServerAddress", "GroupId", "TagIds"} :
        CASE k = "EndpointCreationType" -> params.creation_type = None
          [] k = "URL" -> params.url = None
          [] k = "TLS" -> params.tls = None
          [] k = "EdgeCheckinInterval" -> params.edge_check_in_interval = None
          [] k = "EdgeTunnelServerAddress" -> params.edge_tunnel_server_address = None
          [] k = "GroupId" -> params.group = None
          [] OTHER -> params.tags = None}

\* a state=present run of the environment module has found the environment
PresentOnEnvironment ==
    /\ run > 0
    /\ module = "environment"
    /\ params.state = "present"
    /\ pc \in {"act", "done", "failed"}
    /\ old_item # EmptyDict

\* C35 as stated: for environment state=present an input left unset never
\* enters the change-set and is never overwritten remotely; with tags not
\* supplied, an environment with a non-empty TagIds whose supplied fields
\* match is reported unchanged and keeps its TagIds.
C35_UnsetInputsChangeNothing ==
    PresentOnEnvironment =>
        /\ DOMAIN environment_needs_update(params, old_item, ids) \cap UnsetEnvironmentKeys = {}
        /\ \A i \in 1..Len(Writes) : \A k \in UnsetEnvironmentKeys :
              (Writes[i].op = "update" /\ k \in DOMAIN Writes[i].data /\ k \in DOMAIN old_item)
                  => Writes[i].data[k] = old_item[k]
        /\ (pc = "done" /\ DOMAIN environment_needs_update(params, old_item, ids) \subseteq {"TagIds"}
              /\ params.tags = None) =>
              /\ ~results.changed
              /\ \A i \in 1..Len(Addressed) : Addressed[i]["TagIds"] = old_item["TagIds"]

(***************************************************************************)
(* Environments that are not yet activated                                 *)
(***************************************************************************)
\* the keys needs_update leaves out for the environment the run found
ExcludedKeys ==
    create_only_keys \cup (IF Truthy(Get(old_item, "Heartbeat")) THEN {} ELSE {"URL", "TLS"})

\* C36 as stated: the create-only keys and, when the heartbeat flag of the
\* environment found is false, URL and TLS take no part in change detection,
\* and no update payload of a run on an environment whose heartbeat flag is
\* false carries a URL or TLS that differs from the record's.
C36_InactiveKeepsUrlAndTls ==
    PresentOnEnvironment =>
        /\ DOMAIN environment_needs_update(params, old_item, ids) \cap ExcludedKeys = {}
        /\ ~Truthy(Get(old_item, "Heartbeat")) =>
              \A i \in 1..Len(Writes) : \A k \in {"URL", "TLS"} :
                  (Writes[i].op = "update" /\ k \in DOMAIN Writes[i].data)
                      => Writes[i].data[k] = Get(old_item, k)

(***************************************************************************)
(* The placeholder of the repository password                              *)
(***************************************************************************)
\* C37 as stated: no create, update or redeploy payload of a stack carries the
\* placeholder '***' as RepositoryPassword; a RepositoryPassword in a payload
\* is the repository_password the operator supplied, also when none was
\* supplied and the record found carries a password field.
C37_MaskNeverWritten ==
    (run > 0 /\ module = "stack") =>
        \A i \in 1..Len(Writes) :
            (Writes[i].op \in {"create", "update", "redeploy"}
                /\ "RepositoryPassword" \in DOMAIN Writes[i].data) =>
                /\ Writes[i].data["RepositoryPassword"] # S("***")
                /\ Writes[i].data["RepositoryPassword"] = params.repository_password

(***************************************************************************)
(* What "is healthy" stands for                                            *)
(***************************************************************************)
\* a state=healthy run has exited with the message that the environment is
\* healthy
HealthyReported ==
    /\ run > 0
    /\ module = "environment"
    /\ params.state = "healthy"
    /\ pc = "done"
    /\ results.msg = "is healthy"

\* a read of the run saw the heartbeat flag of the environment set: the
\* lookup, or a round of the health wait (the flag, once set, stays set)
HeartbeatObserved ==
    \/ Truthy(Get(old_item, "Heartbeat"))
    \/ /\ \E i \in 1..Len(log) : log[i].op = "poll" /\ log[i].ok
       /\ \A i \in 1..Len(Addressed) : Truthy(Get(Addressed[i], "Heartbeat"))

\* C38 as stated: a state=healthy run reports that the environment is healthy
\* only if a read of the environment in that run saw its heartbeat flag true,
\* in a dry run as well.
C38_HealthyMeansObserved ==
    HealthyReported => HeartbeatObserved

(***************************************************************************)
(* The form of the environment records the manager holds                   *)
(***************************************************************************)
\* the record of an id in a collection of environments, as the backend stores it
StoredEnvironment(envs, id) == SelectSeq(envs, LAMBDA r : r["Id"] = id)

\* a record the manager holds is the stored record rec as a reply nests it,
\* normalised: no TLSConfig, the TLS fields of the reply at the root, every
\* other field of the reply as it was, and nothing added but the swarm
\* descriptor
Normalised(held, rec) ==
    LET reply == Render("environment", rec)
    IN  /\ "TLSConfig" \in DOMAIN reply
        /\ "TLSConfig" \notin DOMAIN held
        /\ \A k \in TLSKeys \cap DOMAIN reply["TLSConfig"] :
              k \in DOMAIN held /\ held[k] = reply["TLSConfig"][k]
        /\ \A k \in DOMAIN reply \ {"TLSConfig"} : k \in DOMAIN held /\ held[k] = reply[k]
        /\ DOMAIN held \subseteq (DOMAIN reply \ {"TLSConfig"}) \cup TLSKeys \cup {"Swarm"}

\* C39: every environment record the manager holds, from the lookup by id or
\* by name and from the reply to a create or an update, is the reply with its
\* TLSConfig removed and the TLS fields it held lifted to the root, every
\* other field unchanged; and no write payload carries a nested TLSConfig.
C39_EnvironmentNormalised ==
    (run > 0 /\ module = "environment") =>
        /\ (pc \in {"act", "done", "failed"} /\ old_item # EmptyDict) =>
              \E i \in 1..Len(start.remote["environment"]) :
                  /\ start.remote["environment"][i]["Id"] = old_item["Id"]
                  /\ Normalised(old_item, start.remote["environment"][i])
        /\ (pc = "done" /\ ManagedWrites # <<>>
              /\ ManagedWrites[Len(ManagedWrites)].op \in {"create", "update"}) =>
              \E i \in 1..Len(remote["environment"]) :
                  /\ remote["environment"][i]["Id"] = item["Id"]
                  /\ Normalised(item, remote["environment"][i])
        /\ \A i \in 1..Len(Writes) : "TLSConfig" \notin DOMAIN Writes[i].data

\* an environment whose reply nests TLS and TLSSkipVerify has been read and
\* updated, and the record held after the update has both at the root
C39_Witness ==
    /\ run > 0 /\ module = "environment"
    /\ pc = "done"
    /\ old_item # EmptyDict
    /\ "TLSSkipVerify" \in DOMAIN old_item /\ "TLS" \in DOMAIN old_item
    /\ ManagedWrites # <<>> /\ ManagedWrites[Len(ManagedWrites)].op = "update"
    /\ "TLSSkipVerify" \in DOMAIN item /\ "TLSConfig" \notin DOMAIN item

====
